---- MODULE Spec2Model ----
(***************************************************************************)
(* Delta-neutral funding bot: the orchestrator's main loop (bot.rs), the   *)
(* two-leg executor (trading.rs) and the state file, as one state machine. *)
(* The two venues are the environment: every venue call returns a value    *)
(* drawn from a small set (an error, or a list of live positions, or an    *)
(* acknowledgement).                                                       *)
(***************************************************************************)
EXTENDS Integers, Sequences, FiniteSets, TLC

VARIABLES
    pc,           \* position of the orchestrator loop in FundingBot::run
    state,        \* FundingBot.state : BotState (in memory)
    file,         \* the BotState held by the state file
    now,          \* SystemTime::now() in epoch seconds
    interrupted,  \* a ctrl_c signal has been raised and the program can still see it
    attempt,      \* the `attempt` variable of the retry loop being executed
    ex,           \* locals of open_best_opportunity / open_delta_neutral_position
    order,        \* the order the latest step submitted to a venue (NoOrder: none)
    obs,          \* what the current cycle has returned so far
    closeCaller,  \* call site of close_current_position
    sleepFor,     \* the sleep being executed
    rc,           \* locals of the reconcile_state call the latest step made
    rec,          \* locals of the recover_state_if_untracked call the latest step made
    saveFailed    \* a save_to_file call of this run has returned Err

\* BotState::load_from_file and BotState::save_to_file on the files themselves
\* (StoreSpec); the orchestrator's specification keeps these as they start
VARIABLES
    disk,         \* the state file, its .bak and its .tmp
    proc,         \* the process: its position in load_from_file / save_to_file, locals
    hist          \* what the process had saved and was saving when it last died

\* the pure functions of the program, each applied on its own to inputs drawn
\* from a bounded set; the two specifications above keep these as they start
VARIABLES
    call,         \* the function being applied and its arguments
    ret           \* what it returned (NoRet: not applied yet)

storeVars == <<disk, proc, hist>>

fnVars == <<call, ret>>

botVars == <<pc, state, file, now, interrupted, attempt, ex, order, obs, closeCaller, sleepFor,
             rc, rec, saveFailed>>

vars == <<pc, state, file, now, interrupted, attempt, ex, order, obs, closeCaller, sleepFor,
          rc, rec, saveFailed, disk, proc, hist, call, ret>>

-----------------------------------------------------------------------------
(* Program constants *)

ORDER_MAX_ATTEMPTS == 5
ORDER_BASE_BACKOFF_MS == 1000
RATE_LIMIT_BACKOFF_MS == 3000
BACKOFF_MAX_EXPONENT == 6
LIVE_POSITIONS_MAX_ATTEMPTS == 6
CLOSE_MAX_ATTEMPTS == 5
MONITORING_INTERVAL_MINUTES == 15
HOLD_TIME_HOURS == 48
MAX_POSITION_SIZE_USD == 1000
SECS_PER_HOUR == 3600
RECONCILE_RETRY_SECS == 60
IMBALANCE_RETRY_SECS == 5

(* Bounds of the model *)

MaxLots == 1               \* sizes a venue reports for a live position: 1..MaxLots
MaxNow == 180000           \* the clock stops here
TickSecs == 172800         \* granule by which the clock advances
MaxRotations == 1          \* opens are attempted while total_rotations is below
MaxRollbackAttempts == 7   \* the rollback attempts are counted up to this one
MaxLegLots == 3            \* sizes of a live leg when reconcile_state is applied on its own

Symbols == {"BTC", "ETH"}

Min(a, b) == IF a <= b THEN a ELSE b
Max(a, b) == IF a >= b THEN a ELSE b

-----------------------------------------------------------------------------
(* Data model *)

\* format!("{}-USD", symbol)
ExtendedMarket(symbol) == symbol \o "-USD"

\* market.strip_suffix("-USD").unwrap_or(market)
StripUsd(market) ==
    IF Len(market) >= 4 /\ SubSeq(market, Len(market) - 3, Len(market)) = "-USD"
    THEN SubSeq(market, 1, Len(market) - 4)
    ELSE market

\* Option<Position> (Extended) and Option<PacificaPosition>: None is a sentinel
NoExtPos == [market |-> "none", side |-> "none", size |-> 0]
NoPacPos == [symbol |-> "none", side |-> "none", size |-> 0]

ExtPositions == [market : {ExtendedMarket(s) : s \in Symbols}, side : {"LONG", "SHORT"}, size : 1..MaxLots]
PacPositions == [symbol : Symbols, side : {"bid", "ask"}, size : 1..MaxLots]

\* position lists a venue can return: at most one position per market
ExtLists == {L \in SUBSET ExtPositions : \A p, q \in L : p.market = q.market => p = q}
PacLists == {L \in SUBSET PacPositions : \A p, q \in L : p.symbol = q.symbol => p = q}

\* Result<Vec<Position>>
ExtResults == {[ok |-> FALSE, list |-> {}]} \cup {[ok |-> TRUE, list |-> L] : L \in ExtLists}
PacResults == {[ok |-> FALSE, list |-> {}]} \cup {[ok |-> TRUE, list |-> L] : L \in PacLists}

\* Result<Option<PacificaPosition>> of get_position(symbol)
PacPositionResults(symbol) ==
    {[ok |-> FALSE, pos |-> NoPacPos], [ok |-> TRUE, pos |-> NoPacPos]}
        \cup {[ok |-> TRUE, pos |-> p] : p \in {q \in PacPositions : q.symbol = symbol}}

\* Option<DeltaNeutralPosition>
NoPosition ==
    [symbol |-> "none", extended_position |-> NoExtPos, pacifica_position |-> NoPacPos,
     opened_at |-> 0, target_notional_usd |-> 0]

\* Option<u64>::None of last_rotation_time
NoTime == -1

\* BotState::new()
NewBotState == [current_position |-> NoPosition, last_rotation_time |-> NoTime, total_rotations |-> 0]

\* a venue call that submits an order: place_market_order with its arguments, or
\* close_position with the position it is given; NoOrder = no such call
NoOrder == [venue |-> "none", call |-> "none"]

\* iter().find(|p| p.market == market).cloned()
FindExt(list, market) ==
    IF \E p \in list : p.market = market
    THEN CHOOSE p \in list : p.market = market
    ELSE NoExtPos

\* iter().find(|p| p.symbol == symbol).cloned()
FindPac(list, symbol) ==
    IF \E p \in list : p.symbol = symbol
    THEN CHOOSE p \in list : p.symbol = symbol
    ELSE NoPacPos

-----------------------------------------------------------------------------
(* trading.rs: pure helpers *)

\* error texts a venue call can fail with, as word sequences
ErrorMsgs ==
    { <<"request", "timed", "out">>,
      <<"HTTP", "429">>,
      <<"Too", "Many", "Requests">>,
      <<"RATE", "LIMIT", "exceeded">>,
      <<"order", "rejected", "min", "size">> }

\* str::to_lowercase on the words that occur
LowerWord(w) ==
    CASE w = "Too" -> "too"
      [] w = "Many" -> "many"
      [] w = "Requests" -> "requests"
      [] w = "RATE" -> "rate"
      [] w = "LIMIT" -> "limit"
      [] w = "HTTP" -> "http"
      [] OTHER -> w

to_lowercase(msg) == [i \in 1..Len(msg) |-> LowerWord(msg[i])]

\* str::contains
Contains(msg, pat) ==
    \E i \in 1..(Len(msg) - Len(pat) + 1) : SubSeq(msg, i, i + Len(pat) - 1) = pat

looks_like_rate_limit(error_msg) ==
    LET msg == to_lowercase(error_msg) IN
    Contains(msg, <<"429">>) \/ Contains(msg, <<"too", "many", "requests">>)
        \/ Contains(msg, <<"rate", "limit">>)

\* 2u64.pow(n)
RECURSIVE Pow2(_)
Pow2(n) == IF n = 0 THEN 1 ELSE 2 * Pow2(n - 1)

\* a variant of backoff_delay_ms that backs off exponentially for every error
backoff_delay_ms_exponential_only(att, rate_limited) ==
    ORDER_BASE_BACKOFF_MS * Pow2(Min(Max(att - 1, 0), BACKOFF_MAX_EXPONENT))

backoff_delay_ms(att, rate_limited) ==
    IF rate_limited
    THEN RATE_LIMIT_BACKOFF_MS * att
    ELSE ORDER_BASE_BACKOFF_MS * Pow2(Min(Max(att - 1, 0), BACKOFF_MAX_EXPONENT))

\* Result<OrderResponse> of place_market_order / close_position
PlaceResults == {[ok |-> TRUE, msg |-> <<>>]} \cup {[ok |-> FALSE, msg |-> m] : m \in ErrorMsgs}

\* a variant of calculate_position_size that rounds to the finer lot size
calculate_position_size_finer_lot(extended_free, pacifica_free, extended_lot, pacifica_lot, price, cap) ==
    LET min_capital == Min(extended_free, pacifica_free)
        target_notional_x100 == Min(min_capital * 95, cap * 100)
        finer_lot_size == Min(extended_lot, pacifica_lot)
    IN  ((target_notional_x100 * 1000) \div (100 * price * finer_lot_size)) * finer_lot_size

\* a variant of calculate_position_size that rounds up to the next lot
calculate_position_size_ceil(extended_free, pacifica_free, extended_lot, pacifica_lot, price, cap) ==
    LET min_capital == Min(extended_free, pacifica_free)
        target_notional_x100 == Min(min_capital * 95, cap * 100)
        coarser_lot_size == Max(extended_lot, pacifica_lot)
    IN  (((target_notional_x100 * 1000) \div (100 * price * coarser_lot_size)) + 1) * coarser_lot_size

\* calculate_position_size, in integers: capital and cap in USD, price in USD per
\* base unit, lot sizes and the result in thousandths of a base unit
calculate_position_size(extended_free, pacifica_free, extended_lot, pacifica_lot, price, cap) ==
    LET min_capital == Min(extended_free, pacifica_free)
        \* min(min_capital * 0.95, cap), times 100
        target_notional_x100 == Min(min_capital * 95, cap * 100)
        coarser_lot_size == Max(extended_lot, pacifica_lot)
    IN  ((target_notional_x100 * 1000) \div (100 * price * coarser_lot_size)) * coarser_lot_size

\* inputs of the sizing that open_best_opportunity fetches
FreeCollaterals == {100}
LotSizes == {1, 2}
Prices == {50000}

-----------------------------------------------------------------------------
(* trading.rs: decisions of open_delta_neutral_position *)

\* let extended_side = if long_on_extended { Buy } else { Sell }
ExtendedSide(long_on_extended) == IF long_on_extended THEN "Buy" ELSE "Sell"

\* a variant of pacifica_side that repeats the side of the Extended order
PacificaSideSame(long_on_extended) == IF long_on_extended THEN "Buy" ELSE "Sell"

\* let pacifica_side = if long_on_extended { Sell } else { Buy }
PacificaSide(long_on_extended) == IF long_on_extended THEN "Sell" ELSE "Buy"

\* a variant of close_side that repeats the side of the leg-A order
RollbackSideSame(long_on_extended) == IF long_on_extended THEN "Buy" ELSE "Sell"

\* let close_side = if long_on_extended { Sell } else { Buy }
RollbackSide(long_on_extended) == IF long_on_extended THEN "Sell" ELSE "Buy"

LegAOrder(e) ==
    [venue |-> "extended", call |-> "place_market_order", market |-> ExtendedMarket(e.symbol),
     side |-> ExtendedSide(e.long_on_extended), size |-> e.size, reduce_only |-> FALSE]

LegBOrder(e) ==
    [venue |-> "pacifica", call |-> "place_market_order", market |-> e.symbol,
     side |-> PacificaSide(e.long_on_extended), size |-> e.size, reduce_only |-> FALSE]

RollbackOrder(e) ==
    [venue |-> "extended", call |-> "place_market_order", market |-> ExtendedMarket(e.symbol),
     side |-> RollbackSide(e.long_on_extended), size |-> e.size, reduce_only |-> TRUE]

\* a variant of the leg-A Err arm that falls through to leg B at the last attempt
LegAErrorNextToLegB(att) == IF att >= ORDER_MAX_ATTEMPTS THEN "leg_b" ELSE "leg_a"

\* a variant of the leg-A Err arm that returns at the first failure
LegAErrorNextNoRetry(att) == IF att >= 1 THEN "return" ELSE "leg_a"

\* leg A, Err arm: return Err at the last attempt, else sleep and try again
LegAErrorNext(att) == IF att >= ORDER_MAX_ATTEMPTS THEN "return" ELSE "leg_a"

\* a variant of the leg-B Err arm that ends the loop one attempt early
LegBErrorNextEarly(att) == IF att >= ORDER_MAX_ATTEMPTS - 1 THEN "rollback" ELSE "leg_b"

\* leg B, Err arm: at the last attempt the loop ends with pacifica_order = None
LegBErrorNext(att) == IF att >= ORDER_MAX_ATTEMPTS THEN "rollback" ELSE "leg_b"

\* a variant of the rollback Err arm that gives up one attempt later
RollbackGivesUpLate(att, rate_limited) == ~rate_limited /\ att > ORDER_MAX_ATTEMPTS

\* rollback, Err arm: if !rate_limited && attempt >= ORDER_MAX_ATTEMPTS { return Err(..) }
RollbackGivesUp(att, rate_limited) == ~rate_limited /\ att >= ORDER_MAX_ATTEMPTS

-----------------------------------------------------------------------------
(* bot.rs: pure helpers *)

\* no reconcile_state call in the latest step
RcNone ==
    [result |-> "none", live_ext |-> NoExtPos, live_pac |-> NoPacPos, saved_two_legged |-> FALSE]

\* no fetched lists in the latest step's recover_state_if_untracked call (no such
\* call, an early return on a tracked position, or a fetch that failed)
RecNone == [fetched |-> FALSE, extended_positions |-> {}, pacifica_positions |-> {}]

\* recover_state_if_untracked after fetch_live_positions_with_backoff returned Ok
RecFetched(ext_list, pac_list) ==
    [fetched |-> TRUE, extended_positions |-> ext_list, pacifica_positions |-> pac_list]

\* both legs of a position are set
TwoLegged(pos) ==
    pos # NoPosition /\ pos.extended_position # NoExtPos /\ pos.pacifica_position # NoPacPos

\* BotState::should_rotate; the subtraction is on u64
should_rotate(st, hold_time_hours, t) ==
    IF st.current_position # NoPosition
    THEN ((t - st.current_position.opened_at) \div SECS_PER_HOUR) >= hold_time_hours
    ELSE FALSE

\* a variant of is_imbalanced that sees a missing Pacifica leg only
is_imbalanced_ext_only(st) ==
    IF st.current_position # NoPosition
    THEN st.current_position.extended_position # NoExtPos
            /\ st.current_position.pacifica_position = NoPacPos
    ELSE FALSE

\* FundingBot::is_imbalanced
is_imbalanced(st) ==
    IF st.current_position # NoPosition
    THEN (st.current_position.extended_position # NoExtPos)
            # (st.current_position.pacifica_position # NoPacPos)
    ELSE FALSE

\* a variant of the update that keeps the position when no leg is live
ReconcileUpdateNeverClears(saved_pos, live_ext, live_pac) ==
    [saved_pos EXCEPT !.extended_position = live_ext, !.pacifica_position = live_pac]

\* a variant of the update that keeps the saved Pacifica leg when none is live
ReconcileUpdateKeepsSavedLeg(saved_pos, live_ext, live_pac) ==
    IF live_ext = NoExtPos /\ live_pac = NoPacPos
    THEN NoPosition
    ELSE [saved_pos EXCEPT !.extended_position = live_ext,
                           !.pacifica_position = IF live_pac = NoPacPos THEN @ ELSE live_pac]

\* reconcile_state after both queries succeeded: the new current_position
ReconcileUpdate(saved_pos, live_ext, live_pac) ==
    IF live_ext = NoExtPos /\ live_pac = NoPacPos
    THEN NoPosition
    ELSE [saved_pos EXCEPT !.extended_position = live_ext, !.pacifica_position = live_pac]

\* a variant of reconcile_state that reads a failed query as "no position"
ReconcileOutcomeErrAsEmpty(st, ext_res, pac_res) ==
    IF st.current_position = NoPosition
    THEN [ok |-> TRUE, writes |-> FALSE, state |-> st]
    ELSE LET live_ext == IF ext_res.ok
                         THEN FindExt(ext_res.list, ExtendedMarket(st.current_position.symbol))
                         ELSE NoExtPos
             live_pac == IF pac_res.ok THEN pac_res.pos ELSE NoPacPos
         IN  [ok |-> TRUE, writes |-> TRUE,
              state |-> [st EXCEPT !.current_position =
                             IF live_ext = NoExtPos /\ live_pac = NoPacPos
                             THEN NoPosition
                             ELSE [st.current_position EXCEPT !.extended_position = live_ext,
                                                              !.pacifica_position = live_pac]]]

\* reconcile_state up to the write: ok = FALSE is the early return on a failed query,
\* writes = save_to_file is called with the new state
ReconcileOutcome(st, ext_res, pac_res) ==
    IF st.current_position = NoPosition
    THEN [ok |-> TRUE, writes |-> FALSE, state |-> st]
    ELSE IF ~ext_res.ok \/ ~pac_res.ok
    THEN [ok |-> FALSE, writes |-> FALSE, state |-> st]
    ELSE LET live_ext == FindExt(ext_res.list, ExtendedMarket(st.current_position.symbol))
             live_pac == pac_res.pos
         IN  [ok |-> TRUE, writes |-> TRUE,
              state |-> [st EXCEPT !.current_position =
                             ReconcileUpdate(st.current_position, live_ext, live_pac)]]

\* reconcile_state: its result and the locals live_ext, live_pac; "nothing" = no
\* saved position, "query_err" = a query failed, "save_err" = save_to_file failed
ReconcileLocals(st, ext_res, pac_res, save_ok) ==
    IF st.current_position = NoPosition
    THEN [RcNone EXCEPT !.result = "nothing"]
    ELSE IF ~ext_res.ok \/ ~pac_res.ok
    THEN [RcNone EXCEPT !.result = "query_err",
                        !.saved_two_legged = TwoLegged(st.current_position)]
    ELSE [result |-> IF save_ok THEN "ok" ELSE "save_err",
          live_ext |-> FindExt(ext_res.list, ExtendedMarket(st.current_position.symbol)),
          live_pac |-> pac_res.pos,
          saved_two_legged |-> TwoLegged(st.current_position)]

\* a variant of the outcome that takes one empty list for "nothing live"
RecoverOutcomeEither(ext_list, pac_list) ==
    LET extended_symbols == {StripUsd(p.market) : p \in ext_list}
        pacifica_symbols == {p.symbol : p \in pac_list}
        overlap == extended_symbols \cap pacifica_symbols
        all_symbols == extended_symbols \cup pacifica_symbols
    IN  IF ext_list = {} \/ pac_list = {}
        THEN [kind |-> "NoAction", symbol |-> "none"]
        ELSE IF Cardinality(overlap) = 1
        THEN [kind |-> "Recovered", symbol |-> CHOOSE x \in overlap : TRUE]
        ELSE IF overlap = {} /\ Cardinality(all_symbols) = 1
        THEN [kind |-> "Recovered", symbol |-> CHOOSE x \in all_symbols : TRUE]
        ELSE [kind |-> "Blocked", symbol |-> "none"]

\* a variant of the outcome that adopts whenever the venues have a symbol in common
RecoverOutcomeAnyOverlap(ext_list, pac_list) ==
    LET extended_symbols == {StripUsd(p.market) : p \in ext_list}
        pacifica_symbols == {p.symbol : p \in pac_list}
        overlap == extended_symbols \cap pacifica_symbols
        all_symbols == extended_symbols \cup pacifica_symbols
    IN  IF ext_list = {} /\ pac_list = {}
        THEN [kind |-> "NoAction", symbol |-> "none"]
        ELSE IF Cardinality(overlap) >= 1
        THEN [kind |-> "Recovered", symbol |-> CHOOSE x \in overlap : TRUE]
        ELSE IF overlap = {} /\ Cardinality(all_symbols) = 1
        THEN [kind |-> "Recovered", symbol |-> CHOOSE x \in all_symbols : TRUE]
        ELSE [kind |-> "Blocked", symbol |-> "none"]

\* recover_state_if_untracked after a successful fetch: NoAction, Blocked, or
\* Recovered with the symbol to adopt
RecoverOutcome(ext_list, pac_list) ==
    LET extended_symbols == {StripUsd(p.market) : p \in ext_list}
        pacifica_symbols == {p.symbol : p \in pac_list}
        overlap == extended_symbols \cap pacifica_symbols
        all_symbols == extended_symbols \cup pacifica_symbols
    IN  IF ext_list = {} /\ pac_list = {}
        THEN [kind |-> "NoAction", symbol |-> "none"]
        ELSE IF Cardinality(overlap) = 1
        THEN [kind |-> "Recovered", symbol |-> CHOOSE x \in overlap : TRUE]
        ELSE IF overlap = {} /\ Cardinality(all_symbols) = 1
        THEN [kind |-> "Recovered", symbol |-> CHOOSE x \in all_symbols : TRUE]
        ELSE [kind |-> "Blocked", symbol |-> "none"]

\* created_at (ms) a venue reports for a Pacifica position
CreatedAtMs == {0, 172800000}

\* the DeltaNeutralPosition recover_state_if_untracked builds; created_at_ms is the
\* adopted Pacifica position's created_at, ext_value the Extended position's
\* value_f64(), pac_entry the Pacifica position's entry()
AdoptedPosition(symbol, ext_list, pac_list, created_at_ms, ext_value, pac_entry, t) ==
    LET extended_position ==
            IF \E p \in ext_list : StripUsd(p.market) = symbol
            THEN CHOOSE p \in ext_list : StripUsd(p.market) = symbol
            ELSE NoExtPos
        pacifica_position == FindPac(pac_list, symbol)
        opened_at ==
            IF pacifica_position # NoPacPos /\ created_at_ms > 0
            THEN created_at_ms \div 1000
            ELSE t
        n1 == IF extended_position # NoExtPos /\ ext_value > 0 THEN Max(0, ext_value) ELSE 0
        n2 == IF pacifica_position # NoPacPos /\ pacifica_position.size * pac_entry > 0
              THEN Max(n1, pacifica_position.size * pac_entry)
              ELSE n1
    IN  [symbol |-> symbol, extended_position |-> extended_position,
         pacifica_position |-> pacifica_position, opened_at |-> opened_at,
         target_notional_usd |-> n2]

\* best.best_direction of the opportunity the scanner ranks first
Directions == {"Long Extended / Short Pacifica", "Long Pacifica / Short Extended"}

ContainsStr(s, pat) ==
    \E i \in 1..(Len(s) - Len(pat) + 1) : SubSeq(s, i, i + Len(pat) - 1) = pat

\* let long_on_extended = best.best_direction.contains("Long Extended")
LongOnExtended(best_direction) == ContainsStr(best_direction, "Long Extended")

-----------------------------------------------------------------------------
(* State *)

\* submitted = the kinds of order the executor call has submitted so far;
\* b_gave_up_at = the attempt at which the leg-B loop ended without an order;
\* rb_rate_limited = the local rate_limited of the rollback loop;
\* err = e.to_string() of the Err the latest order attempt returned (<<>>: none);
\* rotations_at_entry = total_rotations when open_best_opportunity was entered;
\* errors = the local errors of close_delta_neutral_position
ExIdle ==
    [symbol |-> "none", best_direction |-> "none", long_on_extended |-> FALSE, size |-> 0,
     price |-> 0, a_acked |-> FALSE, b_acked |-> FALSE, rb_acked |-> FALSE,
     submitted |-> {}, b_gave_up_at |-> 0, rb_rate_limited |-> FALSE, err |-> <<>>,
     rotations_at_entry |-> 0,
     errors |-> {}, position |-> NoPosition]

\* what the calls of the current cycle returned: rc = reconcile_state at the top of
\* the cycle, close = close_current_position, run_fetch / open_fetch = the live
\* fetch of the recovery probe in run / in open_best_opportunity ("empty": both
\* lists came back empty, "live": a venue reported a position, "err": the fetch
\* gave up), exec = open_delta_neutral_position, open = open_best_opportunity
ObsIdle ==
    [rc |-> "none", imbalanced |-> FALSE, close |-> "none", run_fetch |-> "none",
     open_fetch |-> "none", exec |-> "none", recoverable |-> FALSE, open |-> "none"]

\* the live lists of a fetch: empty on both venues, or not
FetchSeen(ext_list, pac_list) == IF ext_list = {} /\ pac_list = {} THEN "empty" ELSE "live"

NoSleep == [secs |-> 0, interruptible |-> FALSE, next |-> "none"]

CycleSleep ==
    [secs |-> MONITORING_INTERVAL_MINUTES * 60, interruptible |-> TRUE, next |-> "probe"]

\* Result of save_to_file: TRUE = Ok(()), FALSE = Err from the write of the
\* temporary file (the state file is left as it was).
\* One write fails per run at most.
SaveOutcomes == IF saveFailed THEN {TRUE} ELSE {TRUE, FALSE}

\* A run in which a write failed is followed until run starts the next cycle or
\* next looks for untracked positions; the model does not follow it further.
Followed == ~saveFailed

-----------------------------------------------------------------------------
(* bot.rs: the state file (BotState::load_from_file, BotState::save_to_file) *)

\* the BotStates that are saved
StoredPosition ==
    [symbol |-> "BTC",
     extended_position |-> [market |-> "BTC-USD", side |-> "LONG", size |-> 1],
     pacifica_position |-> [symbol |-> "BTC", side |-> "ask", size |-> 1],
     opened_at |-> 0, target_notional_usd |-> 50000]

StoreStates ==
    { NewBotState,
      [current_position |-> StoredPosition, last_rotation_time |-> 0, total_rotations |-> 1],
      [current_position |-> NoPosition, last_rotation_time |-> 0, total_rotations |-> 1] }

\* serde_json::to_string_pretty(self): the document, as its tokens in order
to_string_pretty(st) ==
    <<"{", st.current_position, st.last_rotation_time, st.total_rotations, "}">>

\* serde_json::from_str::<BotState>(content): Err unless the document is complete
from_str(content) ==
    IF Len(content) = 5 /\ content[1] = "{" /\ content[5] = "}"
    THEN [ok |-> TRUE,
          state |-> [current_position |-> content[2], last_rotation_time |-> content[3],
                     total_rotations |-> content[4]]]
    ELSE [ok |-> FALSE, state |-> NewBotState]

\* a path that does not exist / a file with the given content
Absent == [exists |-> FALSE, content |-> <<>>]
FileOf(content) == [exists |-> TRUE, content |-> content]

\* what a write or copy of content leaves when it stops part-way: the file exists
\* (it was created or truncated) and holds a proper prefix
Torn(content) == {FileOf(SubSeq(content, 1, k)) : k \in 0..(Len(content) - 1)}

\* the files a process can find at its start
FilesAtStart == {Absent} \cup UNION {{FileOf(to_string_pretty(st))} \cup Torn(to_string_pretty(st)) :
                                       st \in StoreStates}

\* Result<BotState> of load_from_file; NoLoad = not called since the last save
NoLoad == [called |-> FALSE, ok |-> FALSE, state |-> NewBotState]
Loaded(st) == [called |-> TRUE, ok |-> TRUE, state |-> st]
LoadErr == [called |-> TRUE, ok |-> FALSE, state |-> NewBotState]

\* load_from_file: its result, and saves = it calls save_to_file with the new state
load_from_file(primary, bak) ==
    IF primary.exists
    THEN IF from_str(primary.content).ok
         THEN [result |-> Loaded(from_str(primary.content).state), saves |-> FALSE]
         ELSE IF bak.exists
         THEN IF from_str(bak.content).ok
              THEN [result |-> Loaded(from_str(bak.content).state), saves |-> FALSE]
              ELSE [result |-> LoadErr, saves |-> FALSE]
         ELSE [result |-> Loaded(NewBotState), saves |-> TRUE]
    ELSE [result |-> Loaded(NewBotState), saves |-> TRUE]

\* the process outside StoreSpec
ProcIdle ==
    [pc |-> "none", mem |-> NewBotState, caller |-> "none", loaded |-> NoLoad,
     save_result |-> "none"]

\* no function is being applied on its own
NoCall == [fn |-> "none"]

NoRet == [returned |-> FALSE]

FnUnused == call = NoCall /\ ret = NoRet

StoreUnused ==
    /\ disk = [primary |-> Absent, bak |-> Absent, tmp |-> Absent]
    /\ proc = ProcIdle
    /\ hist = [saved |-> NewBotState, saving |-> NewBotState, after_crash |-> FALSE]

\* the orchestrator's variables outside its specification
BotIdle ==
    /\ saveFailed = FALSE
    /\ pc = "none"
    /\ state = NewBotState
    /\ file = NewBotState
    /\ now = 0
    /\ interrupted = FALSE
    /\ attempt = 0
    /\ ex = ExIdle
    /\ order = NoOrder
    /\ obs = ObsIdle
    /\ closeCaller = "none"
    /\ sleepFor = NoSleep
    /\ rc = RcNone
    /\ rec = RecNone

\* a process starts on whatever files are there
StoreInit ==
    /\ BotIdle
    /\ FnUnused
    /\ \E primary \in FilesAtStart, bak \in FilesAtStart :
          disk = [primary |-> primary, bak |-> bak, tmp |-> Absent]
    /\ proc = [ProcIdle EXCEPT !.pc = "start"]
    /\ hist = [saved |-> NewBotState, saving |-> NewBotState, after_crash |-> FALSE]

\* FundingBot::new: BotState::load_from_file(&state_path)?
Load ==
    /\ proc.pc = "start"
    /\ LET out == load_from_file(disk.primary, disk.bak) IN
       proc' = [pc |-> IF ~out.result.ok THEN "failed"
                       ELSE IF out.saves THEN "save_backup" ELSE "running",
                mem |-> out.result.state,
                caller |-> IF out.saves THEN "load" ELSE "none",
                loaded |-> out.result,
                save_result |-> "none"]
    /\ hist' = IF load_from_file(disk.primary, disk.bak).saves
               THEN [hist EXCEPT !.saving = NewBotState]
               ELSE hist
    /\ UNCHANGED disk
    /\ UNCHANGED botVars
    /\ UNCHANGED fnVars

\* the orchestrator calls save_to_file with a changed state; create_dir_all may fail
SaveBegin ==
    /\ proc.pc = "running"
    /\ \E st \in StoreStates, dir_ok \in BOOLEAN :
          /\ proc' = [pc |-> IF dir_ok THEN "save_backup" ELSE "running",
                      mem |-> st, caller |-> "run", loaded |-> NoLoad,
                      save_result |-> IF dir_ok THEN "none" ELSE "err"]
          /\ hist' = [saved |-> IF proc.loaded.called THEN proc.loaded.state ELSE hist.saved,
                      saving |-> st, after_crash |-> FALSE]
    /\ UNCHANGED disk
    /\ UNCHANGED botVars
    /\ UNCHANGED fnVars

\* save_to_file returns
SaveReturn(ok) ==
    /\ proc' = [proc EXCEPT !.pc = "running", !.save_result = IF ok THEN "ok" ELSE "err"]
    /\ hist' = IF ok THEN [hist EXCEPT !.saved = proc.mem] ELSE hist

\* save_to_file: if the file exists, fs::copy(path, &backup_path); a failure is logged
SaveBackup ==
    /\ proc.pc = "save_backup"
    /\ IF disk.primary.exists
       THEN \E copy_ok \in BOOLEAN :
               \E left \in (IF copy_ok THEN {disk.primary}
                            ELSE {disk.bak} \cup Torn(disk.primary.content)) :
                  disk' = [disk EXCEPT !.bak = left]
       ELSE UNCHANGED disk
    /\ proc' = [proc EXCEPT !.pc = "save_tmp"]
    /\ UNCHANGED hist
    /\ UNCHANGED botVars
    /\ UNCHANGED fnVars

\* save_to_file: fs::write(&temp_path, &content)?
SaveTmp ==
    /\ proc.pc = "save_tmp"
    /\ \E write_ok \in BOOLEAN :
          IF write_ok
          THEN /\ disk' = [disk EXCEPT !.tmp = FileOf(to_string_pretty(proc.mem))]
               /\ proc' = [proc EXCEPT !.pc = "save_rename"]
               /\ UNCHANGED hist
          ELSE /\ \E left \in {disk.tmp} \cup Torn(to_string_pretty(proc.mem)) :
                     disk' = [disk EXCEPT !.tmp = left]
               /\ SaveReturn(FALSE)
    /\ UNCHANGED botVars
    /\ UNCHANGED fnVars

\* save_to_file: fs::rename(&temp_path, path); on Err go on to the direct write
SaveRename ==
    /\ proc.pc = "save_rename"
    /\ \E rename_ok \in BOOLEAN :
          IF rename_ok
          THEN /\ disk' = [disk EXCEPT !.primary = disk.tmp, !.tmp = Absent]
               /\ SaveReturn(TRUE)
          ELSE /\ proc' = [proc EXCEPT !.pc = "save_fallback"]
               /\ UNCHANGED <<disk, hist>>
    /\ UNCHANGED botVars
    /\ UNCHANGED fnVars

\* save_to_file: fs::write(path, content)?; let _ = fs::remove_file(&temp_path)
SaveFallback ==
    /\ proc.pc = "save_fallback"
    /\ \E write_ok \in BOOLEAN :
          IF write_ok
          THEN /\ \E tmp_left \in {Absent, disk.tmp} :
                     disk' = [disk EXCEPT !.primary = FileOf(to_string_pretty(proc.mem)),
                                          !.tmp = tmp_left]
               /\ SaveReturn(TRUE)
          ELSE /\ \E left \in {disk.primary} \cup Torn(to_string_pretty(proc.mem)) :
                     disk' = [disk EXCEPT !.primary = left]
               /\ SaveReturn(FALSE)
    /\ UNCHANGED botVars
    /\ UNCHANGED fnVars

\* the steps of save_to_file
SavePcs == {"save_backup", "save_tmp", "save_rename", "save_fallback"}

\* the files a process leaves when it dies at a step of save_to_file: before the
\* step's file operation, or part-way through it (a rename is not done part-way)
LeftByCrash(d, at, mem) ==
    {d} \cup
    CASE at = "save_backup" ->
            IF d.primary.exists
            THEN {[d EXCEPT !.bak = f] : f \in Torn(d.primary.content)}
            ELSE {}
      [] at = "save_tmp" -> {[d EXCEPT !.tmp = f] : f \in Torn(to_string_pretty(mem))}
      [] at = "save_fallback" -> {[d EXCEPT !.primary = f] : f \in Torn(to_string_pretty(mem))}
      [] OTHER -> {}

\* the process dies inside save_to_file and is started again
Crash ==
    /\ proc.pc \in SavePcs
    /\ disk' \in LeftByCrash(disk, proc.pc, proc.mem)
    /\ proc' = [ProcIdle EXCEPT !.pc = "start"]
    /\ hist' = [hist EXCEPT !.saving = proc.mem, !.after_crash = TRUE]
    /\ UNCHANGED botVars
    /\ UNCHANGED fnVars

StoreNext ==
    \/ Load
    \/ SaveBegin
    \/ SaveBackup
    \/ SaveTmp
    \/ SaveRename
    \/ SaveFallback
    \/ Crash

-----------------------------------------------------------------------------
(* The orchestrator's initial state *)

Init ==
    /\ saveFailed = FALSE
    /\ pc = "probe"
    /\ state = NewBotState
    /\ file = NewBotState
    /\ now = 0
    /\ interrupted = FALSE
    /\ attempt = 0
    /\ ex = ExIdle
    /\ order = NoOrder
    /\ obs = ObsIdle
    /\ closeCaller = "none"
    /\ sleepFor = NoSleep
    /\ rc = RcNone
    /\ rec = RecNone
    /\ StoreUnused
    /\ FnUnused

-----------------------------------------------------------------------------
(* FundingBot::run: top of the loop, reconciliation, imbalance response *)

\* run, top of the loop: tokio::signal::ctrl_c().now_or_never().is_some()
\* The future is created here and polled once.  tokio registers the listener of a
\* ctrl_c() future at its first poll and completes the future on a signal received
\* after that poll, so a signal raised before the probe is not seen by it and is
\* lost (seen = FALSE); the model also admits a runtime that hands the pending
\* signal to the new listener (seen = TRUE).
ShutdownProbe ==
    /\ pc = "probe"
    /\ Followed
    /\ \E seen \in (IF interrupted THEN BOOLEAN ELSE {FALSE}) :
          /\ pc' = IF seen THEN "stopped" ELSE "reconcile"
          /\ interrupted' = seen
    /\ obs' = ObsIdle
    /\ ex' = ExIdle
    /\ order' = NoOrder
    /\ rc' = RcNone
    /\ rec' = RecNone
    /\ attempt' = 0
    /\ closeCaller' = "none"
    /\ sleepFor' = NoSleep
    /\ UNCHANGED <<state, file, saveFailed, now>>
    /\ UNCHANGED storeVars
    /\ UNCHANGED fnVars

\* run: sleep(Duration::from_secs(60)); continue  (the cycle is skipped)
SkipCycleSleep == [secs |-> RECONCILE_RETRY_SECS, interruptible |-> FALSE, next |-> "probe"]

\* run: if let Err(e) = self.reconcile_state().await { sleep(60); continue; }
\* save_ok is the outcome of save_to_file where reconcile_state calls it
Reconcile ==
    /\ pc = "reconcile"
    /\ \E ext_res \in ExtResults, pac_res \in PacPositionResults(state.current_position.symbol),
          save_ok \in SaveOutcomes :
          LET out == ReconcileOutcome(state, ext_res, pac_res)
              ok == out.ok /\ (out.writes => save_ok)
          IN  /\ state' = out.state
              /\ file' = IF out.writes /\ save_ok THEN out.state ELSE file
              /\ saveFailed' = (saveFailed \/ (out.writes /\ ~save_ok))
              /\ rc' = ReconcileLocals(state, ext_res, pac_res, save_ok)
              /\ obs' = [obs EXCEPT !.rc = IF ok THEN "ok" ELSE "err"]
              /\ pc' = IF ok THEN "imbalance_check" ELSE "sleep"
              /\ sleepFor' = IF ok THEN NoSleep ELSE SkipCycleSleep
    /\ order' = NoOrder
    /\ rec' = RecNone
    /\ UNCHANGED <<now, interrupted, attempt, ex, closeCaller>>
    /\ UNCHANGED storeVars
    /\ UNCHANGED fnVars

\* run: if self.is_imbalanced() { close_current_position() ... }
ImbalanceCheck ==
    /\ pc = "imbalance_check"
    /\ IF is_imbalanced(state)
       THEN /\ pc' = "close_reconcile"
            /\ closeCaller' = "imbalance"
            /\ obs' = [obs EXCEPT !.imbalanced = TRUE]
       ELSE /\ pc' = "recovery_probe"
            /\ UNCHANGED <<closeCaller, obs>>
    /\ attempt' = 1
    /\ order' = NoOrder
    /\ rc' = RcNone
    /\ rec' = RecNone
    /\ UNCHANGED <<state, file, saveFailed, now, interrupted, ex, sleepFor>>
    /\ UNCHANGED storeVars
    /\ UNCHANGED fnVars

-----------------------------------------------------------------------------
(* close_current_position and close_delta_neutral_position *)

\* where run goes when close_current_position returns
AfterClose(caller, ok) ==
    IF caller = "imbalance"
    THEN IF ok THEN [pc |-> "recovery_probe", sleep |-> NoSleep]
         ELSE [pc |-> "sleep",
               sleep |-> [secs |-> IMBALANCE_RETRY_SECS, interruptible |-> FALSE, next |-> "probe"]]
    ELSE IF ok THEN [pc |-> "sleep",
                     sleep |-> [secs |-> 5, interruptible |-> FALSE, next |-> "open_recover"]]
         ELSE [pc |-> "sleep",
               sleep |-> [secs |-> MONITORING_INTERVAL_MINUTES * 60, interruptible |-> FALSE,
                          next |-> "probe"]]

\* the return of close_current_position to its call site in run
CloseReturn(ok) ==
    /\ obs' = [obs EXCEPT !.close = IF ok THEN "ok" ELSE "err"]
    /\ pc' = AfterClose(closeCaller, ok).pc
    /\ sleepFor' = AfterClose(closeCaller, ok).sleep
    /\ attempt' = 1

\* the first leg loop close_delta_neutral_position enters for a position
CloseEntry(pos) ==
    IF pos.extended_position # NoExtPos THEN "close_ext"
    ELSE IF pos.pacifica_position # NoPacPos THEN "close_pac"
    ELSE "close_finish"

\* close_current_position: self.reconcile_state().await.ok(); return Ok if the
\* state was cleared, else enter close_delta_neutral_position
CloseReconcile ==
    /\ pc = "close_reconcile"
    /\ \E ext_res \in ExtResults, pac_res \in PacPositionResults(state.current_position.symbol),
          save_ok \in SaveOutcomes :
          LET out == ReconcileOutcome(state, ext_res, pac_res)
          IN  /\ state' = out.state
              /\ file' = IF out.writes /\ save_ok THEN out.state ELSE file
              /\ saveFailed' = (saveFailed \/ (out.writes /\ ~save_ok))
              /\ rc' = ReconcileLocals(state, ext_res, pac_res, save_ok)
              /\ IF out.state.current_position = NoPosition
                 THEN CloseReturn(TRUE)
                 ELSE /\ pc' = CloseEntry(out.state.current_position)
                      /\ attempt' = 1
                      /\ UNCHANGED <<obs, sleepFor>>
    /\ order' = NoOrder
    /\ rec' = RecNone
    /\ UNCHANGED <<now, interrupted, ex, closeCaller>>
    /\ UNCHANGED storeVars
    /\ UNCHANGED fnVars

\* extended_client.close_position(ext_pos, ..)
CloseExtendedOrder(ext_pos) ==
    [venue |-> "extended", call |-> "close_position", position |-> ext_pos]

\* pacifica_client.close_position(pac_pos, slippage_percent)
ClosePacificaOrder(pac_pos) ==
    [venue |-> "pacifica", call |-> "close_position", position |-> pac_pos]

\* a variant of the close Err arm that allows one attempt more
CloseLegExhaustedLate(att) == att > CLOSE_MAX_ATTEMPTS

\* a leg loop of close_delta_neutral_position, Err arm: record the error at the
\* last attempt, else sleep and try again
CloseLegExhausted(att) == att >= CLOSE_MAX_ATTEMPTS

\* close_delta_neutral_position: one attempt of the Extended close loop
CloseExtended ==
    /\ pc = "close_ext"
    /\ \E res \in PlaceResults :
          /\ order' = CloseExtendedOrder(state.current_position.extended_position)
          /\ IF res.ok \/ CloseLegExhausted(attempt)
             THEN /\ pc' = IF state.current_position.pacifica_position # NoPacPos
                           THEN "close_pac" ELSE "close_finish"
                  /\ attempt' = 1
                  /\ ex' = IF res.ok THEN ex ELSE [ex EXCEPT !.errors = @ \cup {"Extended"}]
             ELSE /\ pc' = "close_ext"
                  /\ attempt' = attempt + 1
                  /\ UNCHANGED ex
    /\ rc' = RcNone
    /\ rec' = RecNone
    /\ UNCHANGED <<state, file, saveFailed, now, interrupted, obs, closeCaller, sleepFor>>
    /\ UNCHANGED storeVars
    /\ UNCHANGED fnVars

\* close_delta_neutral_position: one attempt of the Pacifica close loop
ClosePacifica ==
    /\ pc = "close_pac"
    /\ \E res \in PlaceResults :
          /\ order' = ClosePacificaOrder(state.current_position.pacifica_position)
          /\ IF res.ok \/ CloseLegExhausted(attempt)
             THEN /\ pc' = "close_finish"
                  /\ attempt' = 1
                  /\ ex' = IF res.ok THEN ex ELSE [ex EXCEPT !.errors = @ \cup {"Pacifica"}]
             ELSE /\ pc' = "close_pac"
                  /\ attempt' = attempt + 1
                  /\ UNCHANGED ex
    /\ rc' = RcNone
    /\ rec' = RecNone
    /\ UNCHANGED <<state, file, saveFailed, now, interrupted, obs, closeCaller, sleepFor>>
    /\ UNCHANGED storeVars
    /\ UNCHANGED fnVars

\* close_delta_neutral_position returns; on Ok close_current_position clears the
\* position and saves
CloseFinish ==
    /\ pc = "close_finish"
    /\ IF ex.errors # {}
       THEN /\ CloseReturn(FALSE)
            /\ UNCHANGED <<state, file, saveFailed>>
       ELSE \E save_ok \in SaveOutcomes :
               /\ state' = [state EXCEPT !.current_position = NoPosition]
               /\ file' = IF save_ok THEN state' ELSE file
               /\ saveFailed' = (saveFailed \/ ~save_ok)
               /\ CloseReturn(save_ok)
    /\ ex' = ExIdle
    /\ order' = NoOrder
    /\ rc' = RcNone
    /\ rec' = RecNone
    /\ UNCHANGED <<now, interrupted, closeCaller>>
    /\ UNCHANGED storeVars
    /\ UNCHANGED fnVars

-----------------------------------------------------------------------------
(* recovery probe, decision *)

\* fetch_live_positions_with_backoff, Err arm: give up at the last attempt
FetchGivesUp(att) == att >= LIVE_POSITIONS_MAX_ATTEMPTS

\* a variant of the adoption that counts it as a rotation
AdoptCountsRotation(st, pos) ==
    [st EXCEPT !.current_position = pos,
               !.last_rotation_time = IF @ = NoTime THEN pos.opened_at ELSE @,
               !.total_rotations = @ + 1]

\* recover_state_if_untracked after a successful fetch: the new BotState
Adopt(st, pos) ==
    [st EXCEPT !.current_position = pos,
               !.last_rotation_time = IF @ = NoTime THEN pos.opened_at ELSE @]

\* run: if self.state.current_position.is_none() { match recover_state_if_untracked() }
\* one attempt of the fetch loop per step
RecoveryProbe ==
    /\ pc = "recovery_probe"
    /\ Followed
    /\ IF state.current_position # NoPosition
       THEN /\ pc' = "decide"
            /\ rec' = RecNone
            /\ UNCHANGED <<state, file, saveFailed, obs, attempt, sleepFor>>
       ELSE \E ext_res \in ExtResults, pac_res \in PacResults :
               IF ext_res.ok /\ pac_res.ok
               THEN LET out == RecoverOutcome(ext_res.list, pac_res.list) IN
                    /\ attempt' = 1
                    /\ rec' = RecFetched(ext_res.list, pac_res.list)
                    /\ obs' = [obs EXCEPT !.run_fetch = FetchSeen(ext_res.list, pac_res.list)]
                    /\ IF out.kind = "NoAction"
                       THEN /\ pc' = "decide"
                            /\ UNCHANGED <<state, file, saveFailed, sleepFor>>
                       ELSE IF out.kind = "Blocked"
                       THEN /\ pc' = "sleep"
                            /\ sleepFor' = [secs |-> MONITORING_INTERVAL_MINUTES * 60,
                                            interruptible |-> FALSE, next |-> "probe"]
                            /\ UNCHANGED <<state, file, saveFailed>>
                       ELSE \E created_at_ms \in CreatedAtMs, price \in Prices,
                               has_value \in BOOLEAN, has_entry \in BOOLEAN, save_ok \in SaveOutcomes :
                               LET ext_pos == FindExt(ext_res.list, ExtendedMarket(out.symbol))
                                   pos == AdoptedPosition(out.symbol, ext_res.list, pac_res.list,
                                              created_at_ms,
                                              IF has_value THEN ext_pos.size * price ELSE 0,
                                              IF has_entry THEN price ELSE 0, now)
                               IN  /\ state' = Adopt(state, pos)
                                   /\ file' = IF save_ok THEN state' ELSE file
                                   /\ saveFailed' = (saveFailed \/ ~save_ok)
                                   /\ pc' = IF save_ok THEN "decide" ELSE "sleep"
                                   /\ sleepFor' = IF save_ok THEN NoSleep ELSE SkipCycleSleep
               ELSE IF FetchGivesUp(attempt)
               THEN /\ pc' = "sleep"
                    /\ sleepFor' = SkipCycleSleep
                    /\ obs' = [obs EXCEPT !.run_fetch = "err"]
                    /\ attempt' = 1
                    /\ rec' = RecNone
                    /\ UNCHANGED <<state, file, saveFailed>>
               ELSE /\ attempt' = attempt + 1
                    /\ rec' = RecNone
                    /\ UNCHANGED <<pc, state, file, saveFailed, obs, sleepFor>>
    /\ order' = NoOrder
    /\ rc' = RcNone
    /\ UNCHANGED <<now, interrupted, ex, closeCaller>>
    /\ UNCHANGED storeVars
    /\ UNCHANGED fnVars

\* run: display_status, the scan for display, and the rotate / open / idle decision;
\* now - opened_at is a u64 subtraction: with opened_at > now it panics (overflow
\* checks on) or wraps to a huge elapsed time (overflow checks off)
Decide ==
    /\ pc = "decide"
    /\ IF state.current_position # NoPosition /\ state.current_position.opened_at > now
       THEN \E checked \in BOOLEAN :
               IF checked
               THEN /\ pc' = "panicked"
                    /\ UNCHANGED closeCaller
               ELSE /\ pc' = "close_reconcile"
                    /\ closeCaller' = "rotate"
       ELSE IF should_rotate(state, HOLD_TIME_HOURS, now)
       THEN /\ pc' = "close_reconcile"
            /\ closeCaller' = "rotate"
       ELSE /\ pc' = IF state.current_position = NoPosition THEN "open_recover" ELSE "sleep"
            /\ UNCHANGED closeCaller
    /\ sleepFor' = IF pc' = "sleep" THEN CycleSleep ELSE NoSleep
    /\ attempt' = 1
    /\ order' = NoOrder
    /\ rc' = RcNone
    /\ rec' = RecNone
    /\ UNCHANGED <<state, file, saveFailed, now, interrupted, ex, obs>>
    /\ UNCHANGED storeVars
    /\ UNCHANGED fnVars

-----------------------------------------------------------------------------
(* open_best_opportunity and open_delta_neutral_position *)

\* the return of open_best_opportunity to run, which logs an Err and goes on to the
\* interruptible sleep at the end of the cycle
\* o = what the cycle has returned up to this return
OpenReturnObs(o, result) ==
    /\ obs' = [o EXCEPT !.open = result]
    /\ pc' = "sleep"
    /\ sleepFor' = CycleSleep
    /\ attempt' = 1

OpenReturn(result) == OpenReturnObs(obs, result)

\* open_best_opportunity: match self.recover_state_if_untracked().await?
\* one attempt of the fetch loop per step
OpenRecover ==
    /\ pc = "open_recover"
    /\ Followed
    /\ state.total_rotations < MaxRotations
    /\ IF state.current_position # NoPosition
       THEN /\ pc' = "open_prepare"
            /\ rec' = RecNone
            /\ UNCHANGED <<state, file, saveFailed, obs, attempt, sleepFor>>
       ELSE \E ext_res \in ExtResults, pac_res \in PacResults :
               IF ext_res.ok /\ pac_res.ok
               THEN LET out == RecoverOutcome(ext_res.list, pac_res.list)
                        seen == [obs EXCEPT !.open_fetch = FetchSeen(ext_res.list, pac_res.list)]
                    IN
                    /\ rec' = RecFetched(ext_res.list, pac_res.list)
                    /\ IF out.kind = "NoAction"
                       THEN /\ pc' = "open_prepare"
                            /\ obs' = seen
                            /\ attempt' = 1
                            /\ UNCHANGED <<state, file, saveFailed, sleepFor>>
                       ELSE IF out.kind = "Blocked"
                       THEN /\ OpenReturnObs(seen, "blocked") /\ UNCHANGED <<state, file, saveFailed>>
                       ELSE \E created_at_ms \in CreatedAtMs, price \in Prices,
                               has_value \in BOOLEAN, has_entry \in BOOLEAN, save_ok \in SaveOutcomes :
                               LET ext_pos == FindExt(ext_res.list, ExtendedMarket(out.symbol))
                                   pos == AdoptedPosition(out.symbol, ext_res.list, pac_res.list,
                                              created_at_ms,
                                              IF has_value THEN ext_pos.size * price ELSE 0,
                                              IF has_entry THEN price ELSE 0, now)
                               IN  /\ state' = Adopt(state, pos)
                                   /\ file' = IF save_ok THEN state' ELSE file
                                   /\ saveFailed' = (saveFailed \/ ~save_ok)
                                   /\ OpenReturnObs(seen, IF save_ok THEN "recovered" ELSE "save_err")
               ELSE IF FetchGivesUp(attempt)
               THEN /\ OpenReturnObs([obs EXCEPT !.open_fetch = "err"], "fetch_err")
                    /\ rec' = RecNone
                    /\ UNCHANGED <<state, file, saveFailed>>
               ELSE /\ attempt' = attempt + 1
                    /\ rec' = RecNone
                    /\ UNCHANGED <<pc, state, file, saveFailed, obs, sleepFor>>
    /\ order' = NoOrder
    /\ rc' = RcNone
    /\ UNCHANGED <<now, interrupted, ex, closeCaller>>
    /\ UNCHANGED storeVars
    /\ UNCHANGED fnVars

\* open_best_opportunity from the scan to the size check: calls_ok = no venue call
\* or parse on the way failed, has_best = the scan returned an opportunity
OpenPrepare ==
    /\ pc = "open_prepare"
    /\ \E calls_ok \in BOOLEAN, has_best \in BOOLEAN, symbol \in Symbols,
          best_direction \in Directions, extended_free \in FreeCollaterals,
          pacifica_free \in FreeCollaterals, extended_lot \in LotSizes,
          pacifica_lot \in LotSizes, current_price \in Prices :
          LET position_size == calculate_position_size(extended_free, pacifica_free,
                                   extended_lot, pacifica_lot, current_price,
                                   MAX_POSITION_SIZE_USD)
          IN  IF ~calls_ok
              THEN OpenReturn("call_err") /\ UNCHANGED ex
              ELSE IF ~has_best
              THEN OpenReturn("no_opportunity") /\ UNCHANGED ex
              ELSE IF position_size <= 0
              THEN OpenReturn("insufficient_capital") /\ UNCHANGED ex
              ELSE /\ ex' = [ExIdle EXCEPT !.symbol = symbol,
                                           !.best_direction = best_direction,
                                           !.long_on_extended = LongOnExtended(best_direction),
                                           !.size = position_size, !.price = current_price,
                                           !.rotations_at_entry = state.total_rotations]
                   /\ pc' = "open_leverage"
                   /\ UNCHANGED <<obs, attempt, sleepFor>>
    /\ order' = NoOrder
    /\ rc' = RcNone
    /\ rec' = RecNone
    /\ UNCHANGED <<state, file, saveFailed, now, interrupted, closeCaller>>
    /\ UNCHANGED storeVars
    /\ UNCHANGED fnVars

\* open_best_opportunity: the two update_leverage calls (failures are logged only),
\* then open_delta_neutral_position up to its size check
OpenLeverage ==
    /\ pc = "open_leverage"
    /\ IF ex.size <= 0
       THEN /\ OpenReturn("invalid_size")
            /\ UNCHANGED ex
       ELSE /\ pc' = "leg_a"
            /\ attempt' = 1
            /\ UNCHANGED <<obs, sleepFor, ex>>
    /\ order' = NoOrder
    /\ rc' = RcNone
    /\ rec' = RecNone
    /\ UNCHANGED <<state, file, saveFailed, now, interrupted, closeCaller>>
    /\ UNCHANGED storeVars
    /\ UNCHANGED fnVars

\* open_delta_neutral_position returns Err to open_best_opportunity, which returns it
ExecutorError(result, recoverable) ==
    /\ obs' = [obs EXCEPT !.exec = result, !.recoverable = recoverable, !.open = "exec_err"]
    /\ pc' = "sleep"
    /\ sleepFor' = CycleSleep
    /\ UNCHANGED attempt

\* open_delta_neutral_position, step 1: one attempt of the Extended order
PlaceLegA ==
    /\ pc = "leg_a"
    /\ \E res \in PlaceResults :
          /\ order' = LegAOrder(ex)
          /\ ex' = [ex EXCEPT !.a_acked = res.ok, !.submitted = @ \cup {"leg_a"},
                              !.err = res.msg]
          /\ IF res.ok
             THEN /\ pc' = "leg_b"
                  /\ attempt' = 1
                  /\ UNCHANGED <<obs, sleepFor>>
             ELSE /\ IF LegAErrorNext(attempt) = "return"
                     THEN ExecutorError("leg_a_failed", looks_like_rate_limit(res.msg))
                     ELSE /\ pc' = LegAErrorNext(attempt)
                          /\ attempt' = attempt + 1
                          /\ UNCHANGED <<obs, sleepFor>>
    /\ rc' = RcNone
    /\ rec' = RecNone
    /\ UNCHANGED <<state, file, saveFailed, now, interrupted, closeCaller>>
    /\ UNCHANGED storeVars
    /\ UNCHANGED fnVars

\* open_delta_neutral_position, step 2: one attempt of the Pacifica order
PlaceLegB ==
    /\ pc = "leg_b"
    /\ \E res \in PlaceResults :
          /\ order' = LegBOrder(ex)
          /\ ex' = [ex EXCEPT !.b_acked = res.ok, !.submitted = @ \cup {"leg_b"},
                              !.err = res.msg,
                              !.b_gave_up_at = IF ~res.ok /\ LegBErrorNext(attempt) = "rollback"
                                               THEN attempt ELSE @]
          /\ IF res.ok
             THEN /\ pc' = "snapshot"
                  /\ attempt' = 1
             ELSE /\ pc' = LegBErrorNext(attempt)
                  /\ attempt' = IF LegBErrorNext(attempt) = "rollback" THEN 1 ELSE attempt + 1
    /\ rc' = RcNone
    /\ rec' = RecNone
    /\ UNCHANGED <<state, file, saveFailed, now, interrupted, obs, closeCaller, sleepFor>>
    /\ UNCHANGED storeVars
    /\ UNCHANGED fnVars

\* rollback loop: attempt += 1.  The loop has no upper limit while the venue answers
\* with rate-limit errors; its decisions compare attempt with ORDER_MAX_ATTEMPTS only,
\* so the attempts past MaxRollbackAttempts are counted from ORDER_MAX_ATTEMPTS + 1 again.
NextRollbackAttempt(att) ==
    IF att >= MaxRollbackAttempts THEN ORDER_MAX_ATTEMPTS + 1 ELSE att + 1

\* open_delta_neutral_position, rollback: one attempt of the reduce-only Extended order
Rollback ==
    /\ pc = "rollback"
    /\ \E res \in PlaceResults :
          /\ order' = RollbackOrder(ex)
          /\ ex' = [ex EXCEPT !.rb_acked = res.ok, !.submitted = @ \cup {"rollback"},
                              !.err = res.msg,
                              !.rb_rate_limited = ~res.ok /\ looks_like_rate_limit(res.msg)]
          /\ IF res.ok
             THEN ExecutorError("rolled_back", TRUE)
             ELSE /\ IF RollbackGivesUp(attempt, looks_like_rate_limit(res.msg))
                     THEN ExecutorError("critical_imbalance", FALSE)
                     ELSE /\ attempt' = NextRollbackAttempt(attempt)
                          /\ UNCHANGED <<pc, obs, sleepFor>>
    /\ rc' = RcNone
    /\ rec' = RecNone
    /\ UNCHANGED <<state, file, saveFailed, now, interrupted, closeCaller>>
    /\ UNCHANGED storeVars
    /\ UNCHANGED fnVars

\* open_delta_neutral_position, step 3: get_positions on both venues, then Ok(position)
Snapshot ==
    /\ pc = "snapshot"
    /\ \E ext_res \in ExtResults, pac_res \in PacResults :
          IF ext_res.ok /\ pac_res.ok
          THEN /\ ex' = [ex EXCEPT !.position =
                            [symbol |-> ex.symbol,
                             extended_position |-> FindExt(ext_res.list, ExtendedMarket(ex.symbol)),
                             pacifica_position |-> FindPac(pac_res.list, ex.symbol),
                             opened_at |-> now,
                             target_notional_usd |-> ex.size * ex.price]]
               /\ obs' = [obs EXCEPT !.exec = "ok"]
               /\ pc' = "store"
               /\ UNCHANGED <<attempt, sleepFor>>
          ELSE /\ ExecutorError("snapshot_err", FALSE)
               /\ UNCHANGED ex
    /\ order' = NoOrder
    /\ rc' = RcNone
    /\ rec' = RecNone
    /\ UNCHANGED <<state, file, saveFailed, now, interrupted, closeCaller>>
    /\ UNCHANGED storeVars
    /\ UNCHANGED fnVars

\* open_best_opportunity: "Update state" and save
StoreOpened ==
    /\ pc = "store"
    /\ \E save_ok \in SaveOutcomes :
          /\ state' = [current_position |-> ex.position,
                       last_rotation_time |-> now,
                       total_rotations |-> state.total_rotations + 1]
          /\ file' = IF save_ok THEN state' ELSE file
          /\ saveFailed' = (saveFailed \/ ~save_ok)
          /\ OpenReturn(IF save_ok THEN "ok" ELSE "save_err")
    /\ order' = NoOrder
    /\ rc' = RcNone
    /\ rec' = RecNone
    /\ UNCHANGED <<now, interrupted, ex, closeCaller>>
    /\ UNCHANGED storeVars
    /\ UNCHANGED fnVars

-----------------------------------------------------------------------------
(* sleeps, the clock, the interrupt *)

\* whether the ctrl_c() future of a sleep completes before the timer: a signal may
\* arrive during any sleep, and only the select! at the end of a cycle listens
SignalsSeen(interruptible) == IF interruptible THEN BOOLEAN ELSE {FALSE}

\* a variant of Sleep that drops the tracked position when the signal ends the sleep
SleepDropsPosition ==
    /\ pc = "sleep"
    /\ \E ctrl_c \in SignalsSeen(sleepFor.interruptible) :
          /\ pc' = IF ctrl_c THEN "stopped" ELSE sleepFor.next
          /\ interrupted' = IF sleepFor.interruptible THEN ctrl_c ELSE interrupted
          /\ state' = IF ctrl_c THEN [state EXCEPT !.current_position = NoPosition] ELSE state
    /\ sleepFor' = NoSleep
    /\ attempt' = 1
    /\ order' = NoOrder
    /\ rc' = RcNone
    /\ rec' = RecNone
    /\ ex' = ExIdle
    /\ IF pc' = "open_recover"
       THEN UNCHANGED <<obs, closeCaller>>
       ELSE obs' = ObsIdle /\ closeCaller' = "none"
    /\ UNCHANGED <<file, saveFailed, now>>
    /\ UNCHANGED storeVars
    /\ UNCHANGED fnVars

\* sleep(..).await; the sleep at the end of a cycle is a select! with a ctrl_c()
\* future created there, and ctrl_c = that future completes before the timer fires.
\* A signal raised before that sleep and not seen by it is lost; any other sleep
\* does not look for the signal.
\* Every sleep but the one between the close and the open of a rotation ends the
\* cycle, and the cycle's locals go with it.
Sleep ==
    /\ pc = "sleep"
    /\ \E ctrl_c \in SignalsSeen(sleepFor.interruptible) :
          /\ pc' = IF ctrl_c THEN "stopped" ELSE sleepFor.next
          /\ interrupted' = IF sleepFor.interruptible THEN ctrl_c ELSE interrupted
    /\ sleepFor' = NoSleep
    /\ attempt' = 1
    /\ order' = NoOrder
    /\ rc' = RcNone
    /\ rec' = RecNone
    /\ ex' = ExIdle
    /\ IF pc' = "open_recover"
       THEN UNCHANGED <<obs, closeCaller>>
       ELSE obs' = ObsIdle /\ closeCaller' = "none"
    /\ UNCHANGED <<state, file, saveFailed, now>>
    /\ UNCHANGED storeVars
    /\ UNCHANGED fnVars

\* the steps that read SystemTime::now(); time that passes elsewhere is seen at the
\* next of them
ClockReaders == {"recovery_probe", "decide", "open_recover", "snapshot", "store"}

\* time passes
Tick ==
    /\ pc \in ClockReaders
    /\ now + TickSecs <= MaxNow
    /\ now' = now + TickSecs
    /\ UNCHANGED <<pc, state, file, saveFailed, interrupted, attempt, ex, order, obs, closeCaller,
                 sleepFor, rc, rec>>
    /\ UNCHANGED storeVars
    /\ UNCHANGED fnVars

\* the operator presses Ctrl+C outside the sleep at the end of a cycle.  The model
\* raises the signal at two places: before the probe at the top of the loop, which
\* stands for any moment of the work of a cycle (that work ends and nothing in it
\* looks for the signal), and inside the rollback loop, the one loop of a cycle
\* without an upper limit.
Interrupt ==
    /\ ~interrupted
    /\ pc \in {"probe", "rollback"}
    /\ interrupted' = TRUE
    /\ UNCHANGED <<pc, state, file, saveFailed, now, attempt, ex, order, obs, closeCaller,
                 sleepFor, rc, rec>>
    /\ UNCHANGED storeVars
    /\ UNCHANGED fnVars

Next ==
    \/ ShutdownProbe
    \/ Reconcile
    \/ ImbalanceCheck
    \/ CloseReconcile
    \/ CloseExtended
    \/ ClosePacifica
    \/ CloseFinish
    \/ RecoveryProbe
    \/ Decide
    \/ OpenRecover
    \/ OpenPrepare
    \/ OpenLeverage
    \/ PlaceLegA
    \/ PlaceLegB
    \/ Rollback
    \/ Snapshot
    \/ StoreOpened
    \/ Sleep
    \/ Tick
    \/ Interrupt

Spec == Init /\ [][Next]_vars

\* run is one task that is polled until it returns: a step that can be taken is
\* taken eventually
LiveSpec == Init /\ [][Next]_vars /\ WF_vars(Next)

\* the state file on its own: a process that loads, saves and dies in a save
StoreSpec == StoreInit /\ [][StoreNext]_vars

-----------------------------------------------------------------------------
(* bot.rs: reconcile_state followed by is_imbalanced, applied on their own to a
   tracked two-legged position and to live legs of any size up to MaxLegLots *)

\* a tracked position with one lot on each venue
TrackedOneLot ==
    [symbol |-> "BTC",
     extended_position |-> [market |-> ExtendedMarket("BTC"), side |-> "LONG", size |-> 1],
     pacifica_position |-> [symbol |-> "BTC", side |-> "ask", size |-> 1],
     opened_at |-> 0, target_notional_usd |-> 50000]

\* what get_positions(Some(market)) on Extended can return for the tracked market
LiveExtResults ==
    {[ok |-> FALSE, list |-> {}], [ok |-> TRUE, list |-> {}]}
        \cup {[ok |-> TRUE, list |-> {[market |-> ExtendedMarket("BTC"), side |-> sd, size |-> sz]}] :
                 sd \in {"LONG", "SHORT"}, sz \in 1..MaxLegLots}

\* what get_position(symbol) on Pacifica can return for the tracked symbol
LivePacResults ==
    {[ok |-> FALSE, pos |-> NoPacPos], [ok |-> TRUE, pos |-> NoPacPos]}
        \cup {[ok |-> TRUE, pos |-> [symbol |-> "BTC", side |-> sd, size |-> sz]] :
                 sd \in {"bid", "ask"}, sz \in 1..MaxLegLots}

ImbalanceInit ==
    /\ BotIdle
    /\ StoreUnused
    /\ \E ext_res \in LiveExtResults, pac_res \in LivePacResults :
          call = [fn |-> "reconcile_state",
                  st |-> [NewBotState EXCEPT !.current_position = TrackedOneLot],
                  ext_res |-> ext_res, pac_res |-> pac_res]
    /\ ret = NoRet

\* run: reconcile_state(), and when it returned Ok, is_imbalanced()
ReconcileThenCheck ==
    /\ call.fn = "reconcile_state"
    /\ ~ret.returned
    /\ \E save_ok \in BOOLEAN :
          LET out == ReconcileOutcome(call.st, call.ext_res, call.pac_res)
              ok == out.ok /\ (out.writes => save_ok)
          IN  ret' = [returned |-> TRUE, ok |-> ok, state |-> out.state,
                      imbalanced |-> ok /\ is_imbalanced(out.state)]
    /\ UNCHANGED call
    /\ UNCHANGED botVars
    /\ UNCHANGED storeVars

ImbalanceNext == ReconcileThenCheck

ImbalanceSpec == ImbalanceInit /\ [][ImbalanceNext]_vars

-----------------------------------------------------------------------------
(* opportunity.rs: Opportunity::check_filters applied on its own *)

\* FilterConfig values (percentages and USD as integers)
FilterConfigs ==
    {[min_combined_volume_usd |-> 10, max_intra_exchange_spread_pct |-> 2,
      max_cross_exchange_spread_pct |-> 3, min_net_apr_pct |-> 5]}

\* the fields of an Opportunity that check_filters reads, each below, at and above
\* its threshold
FilterCandidates(config) ==
    [total_volume_24h : {config.min_combined_volume_usd - 1, config.min_combined_volume_usd,
                         config.min_combined_volume_usd + 1},
     extended_spread_pct : {config.max_intra_exchange_spread_pct,
                            config.max_intra_exchange_spread_pct + 1},
     pacifica_spread_pct : {config.max_intra_exchange_spread_pct,
                            config.max_intra_exchange_spread_pct + 1},
     cross_spread_pct : {config.max_cross_exchange_spread_pct - 1,
                         config.max_cross_exchange_spread_pct,
                         config.max_cross_exchange_spread_pct + 1},
     best_net_apr : {config.min_net_apr_pct - 1, config.min_net_apr_pct,
                     config.min_net_apr_pct + 1}]

\* a variant of check_filters that looks at the spreads before the volume
check_filters_spreads_first(opp, config) ==
    IF opp.extended_spread_pct > config.max_intra_exchange_spread_pct
            \/ opp.pacifica_spread_pct > config.max_intra_exchange_spread_pct
    THEN "FailedIntraSpread"
    ELSE IF opp.cross_spread_pct > config.max_cross_exchange_spread_pct
    THEN "FailedCrossSpread"
    ELSE IF opp.total_volume_24h < config.min_combined_volume_usd
    THEN "FailedVolume"
    ELSE IF opp.best_net_apr < config.min_net_apr_pct
    THEN "FailedApr"
    ELSE "Passed"

\* Opportunity::check_filters
check_filters(opp, config) ==
    IF opp.total_volume_24h < config.min_combined_volume_usd
    THEN "FailedVolume"
    ELSE IF opp.extended_spread_pct > config.max_intra_exchange_spread_pct
            \/ opp.pacifica_spread_pct > config.max_intra_exchange_spread_pct
    THEN "FailedIntraSpread"
    ELSE IF opp.cross_spread_pct > config.max_cross_exchange_spread_pct
    THEN "FailedCrossSpread"
    ELSE IF opp.best_net_apr < config.min_net_apr_pct
    THEN "FailedApr"
    ELSE "Passed"

FilterInit ==
    /\ BotIdle
    /\ StoreUnused
    /\ \E config \in FilterConfigs :
          \E opp \in FilterCandidates(config) :
             call = [fn |-> "check_filters", opp |-> opp, config |-> config]
    /\ ret = NoRet

CheckFilters ==
    /\ call.fn = "check_filters"
    /\ ~ret.returned
    /\ ret' = [returned |-> TRUE, filter_result |-> check_filters(call.opp, call.config)]
    /\ UNCHANGED call
    /\ UNCHANGED botVars
    /\ UNCHANGED storeVars

FilterNext == CheckFilters

FilterSpec == FilterInit /\ [][FilterNext]_vars

-----------------------------------------------------------------------------
(* opportunity.rs: OpportunityFinder::scan applied on its own, twice, to the same
   venue data.  The volume tasks of fetch_volumes are joined in the order in which
   they complete, which is an input of each scan. *)

ScanSymbols == {"S1", "S2", "S3"}

\* Result<f64> of a volume fetch (millions of USD)
VolOk(v) == [ok |-> TRUE, value |-> v]
FetchErr == [ok |-> FALSE, value |-> 0]

\* Result of an orderbook fetch: the spread (percent) and the mid price computed
\* from the best bid and ask
BookOk(spread, mid) == [ok |-> TRUE, spread |-> spread, mid |-> mid]
BookErr == [ok |-> FALSE, spread |-> 0, mid |-> 0]

\* Result of a funding-rate fetch: rate_percentage per funding period
RateOk(r) == [ok |-> TRUE, value |-> r]

\* what the two venues answer for one symbol
VenueAnswers(ev, pv, eb, pb, ef, pf) ==
    [extended_volume |-> ev, pacifica_volume |-> pv, extended_orderbook |-> eb,
     pacifica_orderbook |-> pb, extended_funding |-> ef, pacifica_funding |-> pf]

SymbolAnswers ==
    { VenueAnswers(VolOk(10), VolOk(10), BookOk(1, 100), BookOk(1, 100), RateOk(0), RateOk(2)),
      VenueAnswers(VolOk(20), VolOk(20), BookOk(1, 100), BookOk(1, 100), RateOk(0), RateOk(2)),
      VenueAnswers(VolOk(5), VolOk(5), BookOk(1, 100), BookOk(1, 100), RateOk(0), RateOk(3)),
      VenueAnswers(VolOk(2), VolOk(2), BookOk(1, 100), BookOk(1, 100), RateOk(0), RateOk(2)),
      VenueAnswers(VolOk(10), VolOk(10), BookOk(3, 100), BookOk(1, 100), RateOk(0), RateOk(2)),
      VenueAnswers(FetchErr, VolOk(10), BookOk(1, 100), BookOk(1, 100), RateOk(0), RateOk(2)),
      VenueAnswers(FetchErr, FetchErr, BookOk(1, 100), BookOk(1, 100), RateOk(0), RateOk(2)),
      VenueAnswers(VolOk(10), VolOk(10), BookErr, BookOk(1, 100), RateOk(0), RateOk(2)),
      VenueAnswers(VolOk(10), VolOk(10), BookOk(1, 100), BookOk(1, 100), FetchErr, RateOk(2)),
      VenueAnswers(VolOk(10), VolOk(10), BookOk(1, 100), BookOk(1, 100), FetchErr, FetchErr) }

\* the orders in which the tasks of a JoinSet over the symbols can complete
CompletionOrders ==
    {o \in [1..Cardinality(ScanSymbols) -> ScanSymbols] : \A i, j \in DOMAIN o : o[i] = o[j] => i = j}

\* slice::sort_by with the comparator b.key.partial_cmp(&a.key): a stable sort by key
\* descending.  The positions of keys in sorted order:
RECURSIVE StableDescOrder(_)
StableDescOrder(keys) ==
    IF keys = <<>>
    THEN <<>>
    ELSE LET n == Len(keys)
             front == StableDescOrder(SubSeq(keys, 1, n - 1))
             k == Cardinality({i \in 1..Len(front) : keys[front[i]] >= keys[n]})
         IN  SubSeq(front, 1, k) \o <<n>> \o SubSeq(front, k + 1, Len(front))

sort_by_desc(seq, keys) ==
    LET at == StableDescOrder(keys) IN [i \in 1..Len(seq) |-> seq[at[i]]]

\* the task of fetch_volumes: unwrap_or(0.0) on each venue's volume
VolumeData(symbol, answers) ==
    LET extended_vol == IF answers.extended_volume.ok THEN answers.extended_volume.value ELSE 0
        pacifica_vol == IF answers.pacifica_volume.ok THEN answers.pacifica_volume.value ELSE 0
    IN  [symbol |-> symbol, extended_volume |-> extended_vol, pacifica_volume |-> pacifica_vol,
         total_volume |-> extended_vol + pacifica_vol]

\* a variant of fetch_volumes that returns the results as they were joined
fetch_volumes_unsorted(data, done) ==
    [i \in 1..Len(done) |-> VolumeData(done[i], data[done[i]])]

\* fetch_volumes: results pushed as join_next returns them, then sorted by total
\* volume descending
fetch_volumes(data, done) ==
    LET results == [i \in 1..Len(done) |-> VolumeData(done[i], data[done[i]])]
    IN  sort_by_desc(results, [i \in 1..Len(results) |-> results[i].total_volume])

NoOpportunity == [symbol |-> "none"]

Abs(x) == IF x < 0 THEN -x ELSE x

\* fetch_opportunity_data: Ok(None) when an orderbook is missing or a mid is 0; a
\* funding rate that cannot be fetched counts as 0
fetch_opportunity_data(symbol, answers, vol_data) ==
    IF ~answers.extended_orderbook.ok \/ ~answers.pacifica_orderbook.ok
    THEN NoOpportunity
    ELSE IF answers.extended_orderbook.mid = 0 \/ answers.pacifica_orderbook.mid = 0
    THEN NoOpportunity
    ELSE LET ext_mid == answers.extended_orderbook.mid
             pac_mid == answers.pacifica_orderbook.mid
             ext_funding_apr == IF answers.extended_funding.ok
                                THEN answers.extended_funding.value * 3 * 365 ELSE 0
             pac_funding_apr == IF answers.pacifica_funding.ok
                                THEN answers.pacifica_funding.value * 24 * 365 ELSE 0
             net_apr_long_ext == pac_funding_apr - ext_funding_apr
             net_apr_long_pac == ext_funding_apr - pac_funding_apr
         IN  [symbol |-> symbol,
              extended_spread_pct |-> answers.extended_orderbook.spread,
              pacifica_spread_pct |-> answers.pacifica_orderbook.spread,
              cross_spread_pct |-> (Abs(pac_mid - ext_mid) * 100) \div ext_mid,
              total_volume_24h |-> vol_data.total_volume,
              best_direction |-> IF net_apr_long_ext > net_apr_long_pac
                                 THEN "Long Extended / Short Pacifica"
                                 ELSE "Long Pacifica / Short Extended",
              best_net_apr |-> IF net_apr_long_ext > net_apr_long_pac
                               THEN net_apr_long_ext ELSE net_apr_long_pac]

\* the VolumeData of a symbol: volumes.iter().find(|v| v.symbol == symbol).unwrap()
FindVolume(volumes, symbol) ==
    volumes[CHOOSE i \in 1..Len(volumes) : volumes[i].symbol = symbol]

\* the tasks of find_opportunities, awaited in the order of symbols; a task that
\* returned None adds nothing
RECURSIVE AwaitCandidates(_, _, _, _)
AwaitCandidates(symbols, volumes, data, config) ==
    IF symbols = <<>>
    THEN <<>>
    ELSE LET opp == fetch_opportunity_data(Head(symbols), data[Head(symbols)],
                                           FindVolume(volumes, Head(symbols)))
             rest == AwaitCandidates(Tail(symbols), volumes, data, config)
         IN  IF opp = NoOpportunity
             THEN rest
             ELSE <<[opportunity |-> opp, filter_result |-> check_filters(opp, config)]>> \o rest

\* a variant of find_opportunities that returns the candidates as they were awaited
find_opportunities_unsorted(symbols, volumes, data, config) ==
    AwaitCandidates(symbols, volumes, data, config)

\* find_opportunities: the candidates sorted by net APR descending
find_opportunities(symbols, volumes, data, config) ==
    LET candidates == AwaitCandidates(symbols, volumes, data, config)
    IN  sort_by_desc(candidates,
                     [i \in 1..Len(candidates) |-> candidates[i].opportunity.best_net_apr])

IsHighVolume(v, config) == v.total_volume >= config.min_combined_volume_usd

IsPassed(c) == c.filter_result = "Passed"

CountWhere(seq, tags) == Cardinality({i \in 1..Len(seq) : seq[i].filter_result \in tags})

\* OpportunityFinder::scan after find_common_symbols
scan(data, done, config) ==
    LET volumes == fetch_volumes(data, done)
        filtered_by_volume ==
            Cardinality({i \in 1..Len(volumes) : ~IsHighVolume(volumes[i], config)})
        high == SelectSeq(volumes, LAMBDA v : IsHighVolume(v, config))
        high_volume_symbols == [i \in 1..Len(high) |-> high[i].symbol]
        all_candidates == find_opportunities(high_volume_symbols, volumes, data, config)
        passed == SelectSeq(all_candidates, IsPassed)
        opportunities == [i \in 1..Len(passed) |-> passed[i].opportunity]
    IN  [opportunities |-> opportunities,
         all_candidates |-> all_candidates,
         stats |-> [total_common_symbols |-> Len(done),
                    filtered_by_volume |-> filtered_by_volume,
                    filtered_by_spread |->
                        CountWhere(all_candidates, {"FailedIntraSpread", "FailedCrossSpread"}),
                    filtered_by_apr |-> CountWhere(all_candidates, {"FailedApr"}),
                    passed_filters |-> Len(opportunities)]]

NoScan == [scanned |-> FALSE]

ScanInit ==
    /\ BotIdle
    /\ StoreUnused
    /\ \E data \in [ScanSymbols -> SymbolAnswers], config \in FilterConfigs :
          call = [fn |-> "scan", data |-> data, config |-> config]
    /\ ret = NoRet

\* scan(), the first time
Scan ==
    /\ call.fn = "scan"
    /\ ~ret.returned
    /\ \E done \in CompletionOrders :
          ret' = [returned |-> TRUE, first |-> scan(call.data, done, call.config),
                  second |-> NoScan]
    /\ UNCHANGED call
    /\ UNCHANGED botVars
    /\ UNCHANGED storeVars

\* scan() again, on the same venue data
Rescan ==
    /\ call.fn = "scan"
    /\ ret.returned
    /\ ret.second = NoScan
    /\ \E done \in CompletionOrders :
          ret' = [ret EXCEPT !.second = scan(call.data, done, call.config)]
    /\ UNCHANGED call
    /\ UNCHANGED botVars
    /\ UNCHANGED storeVars

ScanNext ==
    \/ Scan
    \/ Rescan

ScanSpec == ScanInit /\ [][ScanNext]_vars

-----------------------------------------------------------------------------
(* trading.rs: calculate_position_size applied on its own *)

\* free collateral on a venue (USD), lot sizes (thousandths of a base unit), mid
\* prices (USD per base unit) and max_position_size_usd
SizeFrees == {0, 10, 40, 100, 200, 2000}
SizeLots == {1, 2, 5}
SizePrices == {3000, 50000}
SizeCaps == {100, 1000}

SizeInit ==
    /\ BotIdle
    /\ StoreUnused
    /\ \E extended_free \in SizeFrees, pacifica_free \in SizeFrees, extended_lot \in SizeLots,
          pacifica_lot \in SizeLots, price \in SizePrices, cap \in SizeCaps :
          call = [fn |-> "calculate_position_size",
                  extended_free_collateral |-> extended_free,
                  pacifica_free_collateral |-> pacifica_free,
                  extended_lot_size |-> extended_lot, pacifica_lot_size |-> pacifica_lot,
                  current_price |-> price, max_position_size_usd |-> cap]
    /\ ret = NoRet

CalculatePositionSize ==
    /\ call.fn = "calculate_position_size"
    /\ ~ret.returned
    /\ ret' = [returned |-> TRUE,
               rounded_size |-> calculate_position_size(
                   call.extended_free_collateral, call.pacifica_free_collateral,
                   call.extended_lot_size, call.pacifica_lot_size, call.current_price,
                   call.max_position_size_usd)]
    /\ UNCHANGED call
    /\ UNCHANGED botVars
    /\ UNCHANGED storeVars

SizeNext == CalculatePositionSize

SizeSpec == SizeInit /\ [][SizeNext]_vars

-----------------------------------------------------------------------------
(* trading.rs: the Err arm of the three order loops of open_delta_neutral_position,
   applied on its own to the k-th failed attempt *)

MaxBackoffAttempt == 24   \* rollback attempts considered; the leg loops end at ORDER_MAX_ATTEMPTS

OrderLoops == {"leg_a", "leg_b", "rollback"}

LoopAttempts(loop) ==
    IF loop = "rollback" THEN 1..MaxBackoffAttempt ELSE 1..ORDER_MAX_ATTEMPTS

\* the loop stops retrying after this failure
LoopGivesUp(loop, att, rate_limited) ==
    CASE loop = "leg_a" -> LegAErrorNext(att) = "return"
      [] loop = "leg_b" -> LegBErrorNext(att) = "rollback"
      [] loop = "rollback" -> RollbackGivesUp(att, rate_limited)

BackoffInit ==
    /\ BotIdle
    /\ StoreUnused
    /\ \E loop \in OrderLoops, e \in ErrorMsgs :
          \E att \in LoopAttempts(loop) :
             call = [fn |-> "order_failed", loop |-> loop, attempt |-> att, e |-> e]
    /\ ret = NoRet

\* Err(e) => { rate_limited; give up or sleep(backoff_delay_ms(attempt, rate_limited)) }
OrderFailed ==
    /\ call.fn = "order_failed"
    /\ ~ret.returned
    /\ LET rate_limited == looks_like_rate_limit(call.e)
       IN  ret' = IF LoopGivesUp(call.loop, call.attempt, rate_limited)
                  THEN [returned |-> TRUE, gave_up |-> TRUE, delay_ms |-> 0]
                  ELSE [returned |-> TRUE, gave_up |-> FALSE,
                        delay_ms |-> backoff_delay_ms(call.attempt, rate_limited)]
    /\ UNCHANGED call
    /\ UNCHANGED botVars
    /\ UNCHANGED storeVars

BackoffNext == OrderFailed

BackoffSpec == BackoffInit /\ [][BackoffNext]_vars

-----------------------------------------------------------------------------
(* trading.rs: retry_with_backoff, one loop iteration per step.  call is the
   activation: the argument max_attempts, the local attempt, and what the run has
   done so far (invocations of the operation, sleeps and the latest delay). *)

MaxRetryAttempts == 8   \* max_attempts ranges over 0..MaxRetryAttempts

RetryValues == {"v1", "v2"}

\* Result<T> of the operation on its at-th invocation
OperationResults(at) ==
    {[ok |-> TRUE, payload |-> v, at |-> at] : v \in RetryValues}
        \cup {[ok |-> FALSE, payload |-> e, at |-> at] : e \in {<<"request", "timed", "out">>, <<"HTTP", "429">>}}

RetryInit ==
    /\ BotIdle
    /\ StoreUnused
    /\ \E max_attempts \in 0..MaxRetryAttempts :
          call = [fn |-> "retry_with_backoff", max_attempts |-> max_attempts, attempt |-> 0,
                  invoked |-> 0, sleeps |-> 0, delay_ms |-> 0]
    /\ ret = NoRet

\* loop { attempt += 1; match operation().await { Ok => return, Err => give up or sleep } }
RetryIteration ==
    /\ call.fn = "retry_with_backoff"
    /\ ~ret.returned
    /\ LET att == call.attempt + 1 IN
       \E result \in OperationResults(call.invoked + 1) :
          IF result.ok
          THEN /\ call' = [call EXCEPT !.attempt = att, !.invoked = @ + 1]
               /\ ret' = [returned |-> TRUE, result |-> result]
          ELSE IF att >= call.max_attempts
          THEN /\ call' = [call EXCEPT !.attempt = att, !.invoked = @ + 1]
               /\ ret' = [returned |-> TRUE, result |-> result]
          ELSE /\ call' = [call EXCEPT !.attempt = att, !.invoked = @ + 1, !.sleeps = @ + 1,
                                       !.delay_ms = Pow2(att - 1) * 1000]
               /\ ret' = ret
    /\ UNCHANGED botVars
    /\ UNCHANGED storeVars

RetryNext == RetryIteration

RetrySpec == RetryInit /\ [][RetryNext]_vars

-----------------------------------------------------------------------------
(* bin/emergency_exit.rs: main, as one call on the state loaded from the state
   file and the positions that are live on the two venues *)

\* a live position of one lot on each venue
LiveExt(symbol) == [market |-> ExtendedMarket(symbol), side |-> "LONG", size |-> 1]
LivePac(symbol) == [symbol |-> symbol, side |-> "ask", size |-> 1]

\* current_position of the state that FundingBot::new loaded
LoadedPositions ==
    { NoPosition, TrackedOneLot,
      [TrackedOneLot EXCEPT !.pacifica_position = NoPacPos],
      [TrackedOneLot EXCEPT !.extended_position = NoExtPos] }

ExitInit ==
    /\ BotIdle
    /\ StoreUnused
    /\ \E pos \in LoadedPositions, ext_live \in SUBSET Symbols, pac_live \in SUBSET Symbols :
          call = [fn |-> "emergency_exit",
                  st |-> [NewBotState EXCEPT !.current_position = pos],
                  ext_live |-> {LiveExt(sym) : sym \in ext_live},
                  pac_live |-> {LivePac(sym) : sym \in pac_live}]
    /\ ret = NoRet

\* get_positions(Some(market)) on Extended / get_position(symbol) on Pacifica
QueryExt(live, answered) == [ok |-> answered, list |-> IF answered THEN live ELSE {}]
QueryPac(live, symbol, answered) ==
    [ok |-> answered,
     pos |-> IF answered /\ LivePac(symbol) \in live THEN LivePac(symbol) ELSE NoPacPos]

\* main: bot.close_current_position(), Ok => "EMERGENCY EXIT SUCCESSFUL", Err => failed.
\* ext_closed / pac_closed: the close of the leg was acknowledged within its attempts
EmergencyExit ==
    /\ call.fn = "emergency_exit"
    /\ ~ret.returned
    /\ \E ext_answered \in BOOLEAN, pac_answered \in BOOLEAN, reconcile_saved \in BOOLEAN,
          ext_closed \in BOOLEAN, pac_closed \in BOOLEAN, saved \in BOOLEAN :
          IF call.st.current_position = NoPosition
          THEN \* "No active position to close"
               ret' = [returned |-> TRUE, ok |-> TRUE, state |-> call.st,
                       ext_live |-> call.ext_live, pac_live |-> call.pac_live]
          ELSE LET symbol == call.st.current_position.symbol
                   \* self.reconcile_state().await.ok()
                   rc_out == ReconcileOutcome(call.st, QueryExt(call.ext_live, ext_answered),
                                              QueryPac(call.pac_live, symbol, pac_answered))
                   st == rc_out.state
                   pos == st.current_position
                   has_ext == pos.extended_position # NoExtPos
                   has_pac == pos.pacifica_position # NoPacPos
                   \* a venue acknowledges the close of a position it holds
                   ext_acked == ext_closed /\ LiveExt(symbol) \in call.ext_live
                   pac_acked == pac_closed /\ LivePac(symbol) \in call.pac_live
                   ext_after == IF has_ext /\ ext_acked
                                THEN call.ext_live \ {LiveExt(symbol)} ELSE call.ext_live
                   pac_after == IF has_pac /\ pac_acked
                                THEN call.pac_live \ {LivePac(symbol)} ELSE call.pac_live
                   close_ok == (has_ext => ext_acked) /\ (has_pac => pac_acked)
               IN  IF pos = NoPosition
                   THEN \* "No live positions to close after reconciliation"
                        ret' = [returned |-> TRUE, ok |-> TRUE, state |-> st,
                                ext_live |-> call.ext_live, pac_live |-> call.pac_live]
                   ELSE IF ~close_ok
                   THEN ret' = [returned |-> TRUE, ok |-> FALSE, state |-> st,
                                ext_live |-> ext_after, pac_live |-> pac_after]
                   ELSE ret' = [returned |-> TRUE, ok |-> saved,
                                state |-> [st EXCEPT !.current_position = NoPosition],
                                ext_live |-> ext_after, pac_live |-> pac_after]
    /\ UNCHANGED call
    /\ UNCHANGED botVars
    /\ UNCHANGED storeVars

ExitNext == EmergencyExit

ExitSpec == ExitInit /\ [][ExitNext]_vars

-----------------------------------------------------------------------------
(* bin/force_rotation.rs: main rewrites the state file; then the monitoring cycle
   of the bot reaches its rotation check *)

FORCED_HOURS_AGO == 49

\* the clock when force_rotation runs, the age of the tracked position then
\* (hours), and the time from then to the bot's rotation check (seconds)
ForceNows == {49 * SECS_PER_HOUR, 60 * SECS_PER_HOUR, 100 * SECS_PER_HOUR}
ForceAges == {0, 1, 24, 47, 48, 49}
ForceDelays == {0, MONITORING_INTERVAL_MINUTES * 60}

ForceInit ==
    /\ BotIdle
    /\ StoreUnused
    /\ \E t \in ForceNows, age \in ForceAges, running \in BOOLEAN :
          LET opened_at == t - age * SECS_PER_HOUR
          IN  call = [fn |-> "force_rotation", now |-> t, running |-> running,
                      file |-> [current_position |-> [TrackedOneLot EXCEPT !.opened_at = opened_at],
                                last_rotation_time |-> opened_at, total_rotations |-> 1]]
    /\ ret = NoRet

\* main: state["last_rotation_time"] = now - 49 * 3600, written back to the file
ForceRotation ==
    /\ call.fn = "force_rotation"
    /\ ~ret.returned
    /\ ret' = [returned |-> TRUE,
               file |-> IF call.file.current_position = NoPosition
                        THEN call.file
                        ELSE [call.file EXCEPT !.last_rotation_time =
                                                   call.now - FORCED_HOURS_AGO * SECS_PER_HOUR],
               cycled |-> FALSE, rotates |-> FALSE, at |-> call.now]
    /\ UNCHANGED call
    /\ UNCHANGED botVars
    /\ UNCHANGED storeVars

\* run: the rotation check of the next cycle.  A bot that was running holds the
\* state it loaded at its start; a bot started afterwards loads the rewritten file.
RotationCheck ==
    /\ call.fn = "force_rotation"
    /\ ret.returned
    /\ ~ret.cycled
    /\ \E delay \in ForceDelays :
          LET st == IF call.running THEN call.file ELSE ret.file
              t == call.now + delay
          IN  ret' = [ret EXCEPT !.cycled = TRUE, !.at = t,
                                 !.rotates = should_rotate(st, HOLD_TIME_HOURS, t)]
    /\ UNCHANGED call
    /\ UNCHANGED botVars
    /\ UNCHANGED storeVars

ForceNext ==
    \/ ForceRotation
    \/ RotationCheck

ForceSpec == ForceInit /\ [][ForceNext]_vars

-----------------------------------------------------------------------------
(* Properties *)

\* an order that opens exposure
OpeningOrder(o) == o.call = "place_market_order" /\ ~o.reduce_only

\* exactly one leg of a position is set
OneLegged(pos) ==
    /\ pos # NoPosition
    /\ \/ pos.extended_position # NoExtPos /\ pos.pacifica_position = NoPacPos
       \/ pos.extended_position = NoExtPos /\ pos.pacifica_position # NoPacPos

\* the steps of close_current_position
ClosePcs == {"close_reconcile", "close_ext", "close_pac", "close_finish"}

\* the steps of open_best_opportunity after its recovery probe
OpenPcs == {"open_prepare", "open_leverage", "leg_a", "leg_b", "rollback", "snapshot", "store"}

\* rollback orders the executor call has submitted
RollbackAttemptsMade ==
    IF pc = "rollback" THEN attempt - 1
    ELSE IF "rollback" \in ex.submitted THEN attempt
    ELSE 0

\* C1: in open_delta_neutral_position a Pacifica (leg B) order is submitted only
\* after an Extended (leg A) order was acknowledged, and when the fifth leg-A
\* attempt fails the executor returns an error having submitted leg-A orders only
\* (no leg-B order, no rollback order).
C1_LegBOnlyAfterLegAAck ==
    /\ ({"leg_b", "rollback"} \cap ex.submitted # {}) => ex.a_acked
    /\ (OpeningOrder(order) /\ order.venue = "pacifica") => ex.a_acked
    /\ pc \in {"leg_b", "rollback", "snapshot", "store"} => ex.a_acked
    /\ obs.exec = "leg_a_failed" =>
          /\ ex.submitted = {"leg_a"}
          /\ attempt = ORDER_MAX_ATTEMPTS
          /\ ~ex.a_acked
          /\ OpeningOrder(order) /\ order.venue = "extended"
          /\ obs.open = "exec_err"

\* the executor has returned after the fifth leg-A attempt failed
C1_Witness ==
    pc = "sleep" /\ obs.exec = "leg_a_failed" /\ ex.submitted = {"leg_a"}
        /\ attempt = ORDER_MAX_ATTEMPTS

\* C2: with leg A acknowledged and all five leg-B attempts failed, the executor
\* submits on Extended an order of the side opposite to leg A, reduce-only, of the
\* same base size; when that order is acknowledged the executor returns a
\* recoverable error, and current_position is still None and total_rotations is
\* what it was when open_best_opportunity was entered.
C2_RollbackAfterLegBExhausted ==
    /\ (pc = "rollback" \/ "rollback" \in ex.submitted) =>
          /\ ex.a_acked /\ ~ex.b_acked
          /\ "leg_b" \in ex.submitted
          /\ ex.b_gave_up_at = ORDER_MAX_ATTEMPTS
    /\ "rollback" \in ex.submitted =>
          /\ order.call = "place_market_order"
          /\ order.venue = "extended"
          /\ order.market = ExtendedMarket(ex.symbol)
          /\ order.reduce_only
          /\ order.size = ex.size
          /\ order.side \in {"Buy", "Sell"}
          /\ order.side # ExtendedSide(ex.long_on_extended)
    /\ ex.rb_acked => obs.exec = "rolled_back"
    /\ obs.exec = "rolled_back" =>
          /\ ex.rb_acked
          /\ obs.recoverable
          /\ obs.open = "exec_err"
          /\ state.current_position = NoPosition
          /\ state.total_rotations = ex.rotations_at_entry

\* the rollback order was acknowledged and the executor has returned
C2_Witness ==
    pc = "sleep" /\ obs.exec = "rolled_back" /\ order.reduce_only /\ ex.rb_acked
        /\ ex.b_gave_up_at = ORDER_MAX_ATTEMPTS

C4_NoDoubleOpen ==
    /\ OpeningOrder(order) =>
          state.current_position = NoPosition /\ obs.open_fetch = "empty"
    /\ pc \in OpenPcs \ {"store"} =>
          state.current_position = NoPosition /\ obs.open_fetch = "empty"
    /\ (pc = "decide" /\ state.current_position = NoPosition) =>
          obs.rc = "ok" /\ obs.run_fetch = "empty"

\* leg A was submitted and acknowledged after a fetch that found nothing live
C4_Witness ==
    pc = "leg_b" /\ OpeningOrder(order) /\ obs.open_fetch = "empty"
        /\ obs.run_fetch = "empty" /\ state.current_position = NoPosition

\* C5: a state that has exactly one leg set after reconciliation never reaches the
\* recovery probe, the decision or an open: close_current_position runs first, and
\* when it fails the cycle ends in a 5 s sleep with no opening order submitted.
C5_ImbalanceClosedFirst ==
    /\ pc = "recovery_probe" => ~OneLegged(state.current_position)
    /\ (obs.imbalanced /\ obs.close = "none") =>
          /\ pc \in ClosePcs
          /\ closeCaller = "imbalance"
          /\ ~OpeningOrder(order)
    /\ (closeCaller = "imbalance" /\ obs.close = "err") =>
          /\ pc = "sleep"
          /\ sleepFor = [secs |-> 5, interruptible |-> FALSE, next |-> "probe"]
          /\ ~OpeningOrder(order)
          /\ obs.open = "none" /\ obs.exec = "none"

\* the close of a one-legged position has failed
C5_Witness ==
    pc = "sleep" /\ closeCaller = "imbalance" /\ obs.close = "err"
        /\ OneLegged(state.current_position)

\* a step of C6: the reconciliation at the top of a cycle with a failed query, the
\* sleep after it, and the top of the next cycle
C6_Step ==
    /\ (pc = "reconcile" /\ rc'.result = "query_err") =>
          /\ state.current_position # NoPosition
          /\ state' = state
          /\ file' = file
          /\ order' = NoOrder
          /\ obs'.rc = "err"
          /\ pc' = "sleep"
          /\ sleepFor' = [secs |-> 60, interruptible |-> FALSE, next |-> "probe"]
    /\ (pc = "sleep" /\ rc.result = "query_err") =>
          /\ state' = state
          /\ file' = file
          /\ order' = NoOrder
          /\ pc' = "probe"
    /\ pc = "probe" =>
          /\ state' = state
          /\ file' = file
          /\ order' = NoOrder
          /\ pc' \in {"probe", "reconcile", "stopped"}

\* C6: when a live-position query of the reconciliation at the top of a cycle
\* fails, the state in memory and in the file stays as it was, the cycle is
\* skipped with a 60 s sleep, and no order is submitted before the next cycle's
\* reconciliation.
C6_QueryFailureSkipsCycle == [][C6_Step]_vars

\* the cycle is being skipped after a failed query, the saved position kept
C6_Witness ==
    pc = "sleep" /\ rc.result = "query_err" /\ state.current_position # NoPosition
        /\ file = state

\* C7: after open_best_opportunity has stored an opened position and returned Ok,
\* the state in memory and in the file has both legs set and opened_at <= now.
C7_OpenedHasBothLegs ==
    obs.open = "ok" =>
        /\ TwoLegged(state.current_position)
        /\ state.current_position.opened_at <= now
        /\ file = state

\* close_current_position has just returned Ok to run
C8_ClosedOk ==
    /\ obs.close = "ok"
    /\ pc = "recovery_probe" \/ (pc = "sleep" /\ sleepFor.next = "open_recover")
    /\ obs.run_fetch = "none"

\* C8: when close_current_position returns Ok, current_position is None in memory
\* and in the state file.
C8_ClosedIsCleared ==
    C8_ClosedOk =>
        state.current_position = NoPosition /\ file.current_position = NoPosition

C10_Step ==
    (pc \in {"reconcile", "close_reconcile"} /\ state.current_position # NoPosition) =>
        LET p == state.current_position
            q == state'.current_position
        IN  /\ rc'.result \in {"query_err", "ok", "save_err"}
            /\ state'.last_rotation_time = state.last_rotation_time
            /\ state'.total_rotations = state.total_rotations
            /\ rc'.result = "query_err" => (q = p /\ file' = file)
            /\ rc'.result \in {"ok", "save_err"} =>
                  /\ q = IF rc'.live_ext = NoExtPos /\ rc'.live_pac = NoPacPos
                         THEN NoPosition
                         ELSE [symbol |-> p.symbol,
                               extended_position |-> rc'.live_ext,
                               pacifica_position |-> rc'.live_pac,
                               opened_at |-> p.opened_at,
                               target_notional_usd |-> p.target_notional_usd]
                  /\ rc'.live_ext # NoExtPos => rc'.live_ext.market = ExtendedMarket(p.symbol)
                  /\ rc'.live_pac # NoPacPos => rc'.live_pac.symbol = p.symbol
                  /\ file' = IF rc'.result = "ok" THEN state' ELSE file

C11_ExtSymbols(ext_list) == {StripUsd(p.market) : p \in ext_list}
C11_PacSymbols(pac_list) == {p.symbol : p \in pac_list}

\* the two cases in which adoption is allowed
C11_Adoptable(ext_list, pac_list) ==
    \/ /\ ext_list # {} /\ pac_list # {}
       /\ Cardinality(C11_ExtSymbols(ext_list) \cap C11_PacSymbols(pac_list)) = 1
    \/ /\ (ext_list = {}) # (pac_list = {})
       /\ Cardinality(C11_ExtSymbols(ext_list) \cup C11_PacSymbols(pac_list)) = 1

\* a step of C11: a recover_state_if_untracked call whose fetch reported a position
C11_Step ==
    (/\ pc \in {"recovery_probe", "open_recover"}
     /\ rec'.fetched
     /\ rec'.extended_positions # {} \/ rec'.pacifica_positions # {}) =>
        LET es == C11_ExtSymbols(rec'.extended_positions)
            ps == C11_PacSymbols(rec'.pacifica_positions)
            q == state'.current_position
        IN  /\ state.current_position = NoPosition
            /\ order' = NoOrder
            /\ IF C11_Adoptable(rec'.extended_positions, rec'.pacifica_positions)
               THEN /\ q # NoPosition
                    /\ q.symbol \in es \cup ps
                    /\ (es # {} /\ ps # {}) => q.symbol \in es \cap ps
                    /\ q.extended_position = FindExt(rec'.extended_positions, ExtendedMarket(q.symbol))
                    /\ q.pacifica_position = FindPac(rec'.pacifica_positions, q.symbol)
               ELSE /\ state' = state
                    /\ file' = file
                    /\ pc' = "sleep"
                    /\ sleepFor'.next = "probe"

\* C11: a recovery probe that finds current_position empty and a live position
\* adopts a position exactly when both venues report exactly one common symbol, or
\* one venue alone reports and one symbol in all is involved; otherwise the state
\* stays empty and the cycle ends in a sleep with no order submitted.
C11_AdoptionCases == [][C11_Step]_vars

\* adopted: Extended reported two symbols, Pacifica the one they have in common
C11_Witness ==
    /\ rec.fetched
    /\ Cardinality(rec.extended_positions) = 2 /\ Cardinality(rec.pacifica_positions) = 1
    /\ state.current_position # NoPosition
    /\ state.current_position.symbol \in C11_PacSymbols(rec.pacifica_positions)

\* the hold time in seconds
C12_HoldSecs == HOLD_TIME_HOURS * SECS_PER_HOUR

\* a step of C12: the rotation decision of a cycle with a position (the step that
\* leaves "decide"), and the close the rotation makes
C12_Step ==
    /\ (pc = "decide" /\ pc' # "decide" /\ state.current_position # NoPosition
            /\ now - state.current_position.opened_at >= C12_HoldSecs) =>
          pc' = "close_reconcile" /\ closeCaller' = "rotate"
    /\ (pc = "decide" /\ pc' # "decide" /\ state.current_position # NoPosition
            /\ now - state.current_position.opened_at < C12_HoldSecs) =>
          pc' = "sleep" /\ sleepFor' = CycleSleep
    /\ (pc \in ClosePcs /\ closeCaller = "rotate") =>
          /\ ~OpeningOrder(order')
          /\ pc' \in ClosePcs \/ pc' = "sleep"
          /\ (pc' = "sleep" /\ obs'.close = "ok") => sleepFor'.next = "open_recover"
          /\ (pc' = "sleep" /\ obs'.close = "err") => sleepFor'.next = "probe"

\* C12: with a position held for hold_time_hours or longer the cycle closes it and,
\* only after the close returned Ok, goes on to open_best_opportunity; with a
\* position held for less, or when the close fails, the cycle ends without an
\* opening order.
C12_RotateAfterHold == [][C12_Step]_vars

\* a step of C13: total_rotations goes up by one in the step that stores an opened
\* position (the step that leaves "store"), and stays as it is in every other step
C13_Step ==
    state'.total_rotations =
        IF pc = "store" /\ pc' # "store"
        THEN state.total_rotations + 1
        ELSE state.total_rotations

\* C13: total_rotations is incremented exactly once per successful open (the
\* executor returned Ok and open_best_opportunity stored the position) and by
\* nothing else: not by reconciliation, adoption, close, or an open that failed or
\* was rolled back; so it never decreases and is its initial value + N after N
\* successful opens.
C13_RotationsCountOpens == [][C13_Step]_vars

\* an open has been stored after a position was adopted and closed
C13_Witness ==
    /\ obs.open = "ok" /\ state.total_rotations = 1 /\ file.total_rotations = 1
    /\ obs.close = "ok"

\* C14: when the process died inside save_to_file, the load_from_file of the next
\* start returns Ok with the state saved before that call or the state the call
\* was saving: not an error, and not another state such as a fresh empty one.
C14_CrashSafe ==
    (hist.after_crash /\ proc.loaded.called) =>
        /\ proc.loaded.ok
        /\ proc.loaded.state \in {hist.saved, hist.saving}

\* a file that exists and parses as a BotState
ValidStateFile(f) == f.exists /\ from_str(f.content).ok

\* a step of C15: load_from_file finds a valid .bak and no valid state file
C15_Step ==
    (/\ proc.pc = "start"
     /\ ~ValidStateFile(disk.primary)
     /\ ValidStateFile(disk.bak)) =>
        proc'.loaded = Loaded(from_str(disk.bak.content).state)

\* C15: with the .bak file the only valid state file (the state file absent or
\* unparseable) load_from_file returns the state the .bak file holds.
C15_LoadsBackup == [][C15_Step]_vars

\* a step of C16: load_from_file finds neither a valid state file nor a valid
\* .bak, and the save_to_file it then calls
C16_Step ==
    /\ (/\ proc.pc = "start"
        /\ ~ValidStateFile(disk.primary)
        /\ ~ValidStateFile(disk.bak)) =>
          /\ proc'.loaded = Loaded(NewBotState)
          /\ proc'.pc = "save_backup" /\ proc'.mem = NewBotState
    /\ (proc.caller = "load" /\ proc.pc \in SavePcs /\ proc'.save_result = "ok") =>
          disk'.primary = FileOf(to_string_pretty(NewBotState))

\* C16: with the state file and the .bak file each absent or corrupt,
\* load_from_file returns Ok with the empty initial state and writes that state to
\* the state file.
C16_StartsFresh == [][C16_Step]_vars

\* C17: shutdown never closes positions.  run returns Ok(()) (pc = "stopped") only
\* from the shutdown probe or from the sleep at the end of a cycle, only when the
\* interrupt has been observed there, and the step that returns submits no order
\* and leaves BotState, in memory and in the state file, as it was; nothing runs
\* after the return.
C17_Step ==
    /\ (pc # "stopped" /\ pc' = "stopped") =>
          /\ pc \in {"probe", "sleep"}
          /\ pc = "sleep" => sleepFor.interruptible
          /\ interrupted'
          /\ order' = NoOrder
          /\ state' = state
          /\ file' = file
    /\ pc = "stopped" => UNCHANGED vars

C17_ShutdownKeepsPositions == [][C17_Step]_vars

\* run has returned on the interrupt while a position is tracked
C17_Witness ==
    /\ pc = "stopped"
    /\ interrupted
    /\ state.current_position # NoPosition
    /\ file.current_position # NoPosition

\* run has ended: it returned Ok(()), or the process died in a panic
C18_Exited == pc \in {"stopped", "panicked"}

\* the places where the model stops following a run (a save failed earlier, or
\* MaxRotations opens are done)
C18_NotFollowed ==
    \/ ~Followed /\ pc \in {"probe", "recovery_probe", "open_recover"}
    \/ pc = "open_recover" /\ state.total_rotations >= MaxRotations

\* C18: once an interrupt signal has been raised the main loop eventually exits,
\* whatever the venues return.
C18_InterruptEndsLoop == interrupted ~> (C18_Exited \/ C18_NotFollowed)

\* C19: with leg A acknowledged, the leg-B loop starts at attempt 1, every step of
\* it submits one leg-B order, a failed attempt below ORDER_MAX_ATTEMPTS is followed
\* by the next attempt whatever the error, and the rollback is entered only by the
\* failure of attempt ORDER_MAX_ATTEMPTS: exactly ORDER_MAX_ATTEMPTS leg-B orders
\* precede the first rollback order (a step at the rollback that is not the arrival
\* of a signal submits one).  An acknowledged leg-B attempt leads to the snapshot,
\* and no rollback order is submitted in a call that has one.
C19_Step ==
    /\ (pc # "leg_b" /\ pc' = "leg_b") => (attempt' = 1 /\ ex'.a_acked)
    /\ pc = "leg_b" =>
          /\ ex.a_acked
          /\ order' = LegBOrder(ex)
          /\ pc' \in {"leg_b", "rollback", "snapshot"}
          /\ pc' = "leg_b" => (~ex'.b_acked /\ attempt' = attempt + 1)
          /\ pc' = "rollback" =>
                (~ex'.b_acked /\ attempt = ORDER_MAX_ATTEMPTS /\ "rollback" \notin ex.submitted)
          /\ pc' = "snapshot" => ex'.b_acked
          /\ ~ex'.b_acked => (pc' = "rollback" <=> attempt = ORDER_MAX_ATTEMPTS)
    /\ (pc # "rollback" /\ pc' = "rollback") => pc = "leg_b"
    /\ pc = "rollback" =>
          /\ interrupted' = interrupted => order' = RollbackOrder(ex)
          /\ ~ex.b_acked
          /\ ex.b_gave_up_at = ORDER_MAX_ATTEMPTS
    /\ ex'.b_acked => "rollback" \notin ex'.submitted

C19_RollbackAfterMaxLegB == [][C19_Step]_vars

\* a rollback order has been submitted after leg A was acknowledged and the leg-B
\* loop ended at attempt ORDER_MAX_ATTEMPTS
C19_Witness ==
    /\ "rollback" \in ex.submitted
    /\ order = RollbackOrder(ex)
    /\ ex.a_acked
    /\ ex.b_gave_up_at = ORDER_MAX_ATTEMPTS

\* the venue rejected the order on business grounds (minimum size, margin)
C20_Rejected(msg) == Contains(to_lowercase(msg), <<"order", "rejected">>)

\* C20 as stated: an order the venue rejects on business grounds is not retried:
\* after the rejection the executor submits no further attempt of that order and
\* fails the step.
C20_StepAsStated ==
    /\ (pc = "leg_a" /\ C20_Rejected(ex'.err)) =>
          (pc' # "leg_a" /\ obs'.exec = "leg_a_failed")
    /\ (pc = "leg_b" /\ C20_Rejected(ex'.err)) => pc' = "rollback"

C20_RejectionNotRetried == [][C20_StepAsStated]_vars

\* C20, amended: a rejected order is retried like any other failed order.  Below
\* attempt ORDER_MAX_ATTEMPTS the rejection is followed by the next attempt of the
\* same order (every attempt after the first submits the order of the attempt
\* before it); at attempt ORDER_MAX_ATTEMPTS it fails the step (leg A: the executor
\* returns the error; leg B: the rollback starts).  The rejection is not a
\* rate-limit error, so the error returned for leg A is not recoverable.
C20_Step ==
    /\ (pc = "leg_a" /\ C20_Rejected(ex'.err)) =>
          IF attempt < ORDER_MAX_ATTEMPTS
          THEN pc' = "leg_a" /\ attempt' = attempt + 1 /\ obs' = obs
          ELSE pc' = "sleep" /\ obs'.exec = "leg_a_failed" /\ ~obs'.recoverable
    /\ (pc = "leg_b" /\ C20_Rejected(ex'.err)) =>
          IF attempt < ORDER_MAX_ATTEMPTS
          THEN pc' = "leg_b" /\ attempt' = attempt + 1
          ELSE pc' = "rollback"
    /\ (pc \in {"leg_a", "leg_b"} /\ attempt > 1) => order' = order

C20_RejectionRetried == [][C20_Step]_vars

\* the same leg-A order is about to be submitted again after a rejection
C20_Witness ==
    /\ pc = "leg_a"
    /\ attempt > 1
    /\ C20_Rejected(ex.err)
    /\ order = LegAOrder(ex)

\* C21: when the executor has returned the non-recoverable error (leg B exhausted
\* and the rollback of leg A given up), the orchestrator halts: run does not go on
\* to another cycle.
C21_Step == obs.exec = "critical_imbalance" => pc' \notin {"probe", "reconcile"}

C21_HaltsOnCriticalImbalance == [][C21_Step]_vars

\* the legs reconcile_state found live, and their sizes
C22_LiveExt == FindExt(call.ext_res.list, ExtendedMarket(call.st.current_position.symbol))

C22_LivePac == call.pac_res.pos

C22_BothLive ==
    /\ call.fn = "reconcile_state" /\ ret.returned /\ ret.ok
    /\ C22_LiveExt # NoExtPos
    /\ C22_LivePac # NoPacPos

C22_LotsApart ==
    IF C22_LiveExt.size >= C22_LivePac.size
    THEN C22_LiveExt.size - C22_LivePac.size
    ELSE C22_LivePac.size - C22_LiveExt.size

\* C22 as stated: two present legs whose sizes differ by at most one lot are
\* balanced, and a reconciliation that finds both legs live with sizes that differ
\* by more than one lot surfaces the state as imbalanced.
C22_SizeGapIsImbalance ==
    C22_BothLive => (ret.imbalanced <=> C22_LotsApart > 1)

\* C22, amended: after a reconciliation that returned Ok the state is imbalanced
\* exactly when one leg is live and the other is not; two live legs are balanced
\* whatever their sizes and sides.
C22_OneLegIsImbalance ==
    (call.fn = "reconcile_state" /\ ret.returned /\ ret.ok) =>
        /\ ret.imbalanced <=> ((C22_LiveExt # NoExtPos) # (C22_LivePac # NoPacPos))
        /\ C22_BothLive => ~ret.imbalanced

\* both legs were found live, more than one lot apart, and the state is not imbalanced
C22_Witness == C22_BothLive /\ C22_LotsApart > 1 /\ ~ret.imbalanced

\* C23: opened_at <= now for every position that is persisted (tracked in memory or
\* held by the state file), whether a successful open or an adoption created it.
C23_OpenedAtNotAfterNow ==
    /\ state.current_position # NoPosition => state.current_position.opened_at <= now
    /\ file.current_position # NoPosition => file.current_position.opened_at <= now

\* the four checks of a candidate, in the order volume, intra-exchange spread,
\* cross-exchange spread, APR: TRUE = the check holds
C26_Checks ==
    LET opp == call.opp
        config == call.config
    IN  <<opp.total_volume_24h >= config.min_combined_volume_usd,
          opp.extended_spread_pct <= config.max_intra_exchange_spread_pct
              /\ opp.pacifica_spread_pct <= config.max_intra_exchange_spread_pct,
          opp.cross_spread_pct <= config.max_cross_exchange_spread_pct,
          opp.best_net_apr >= config.min_net_apr_pct>>

C26_Tags == <<"FailedVolume", "FailedIntraSpread", "FailedCrossSpread", "FailedApr">>

\* C26: check_filters returns the tag of the first check that fails, in the order
\* volume, intra-spread, cross-spread, APR: a candidate whose total volume is below
\* the minimum gets FailedVolume whatever its spreads and APR, and Passed is
\* returned only when the four checks hold.
C26_FirstFailingStage ==
    (call.fn = "check_filters" /\ ret.returned) =>
        /\ \A i \in 1..4 :
              (~C26_Checks[i] /\ \A j \in 1..(i - 1) : C26_Checks[j])
                  => ret.filter_result = C26_Tags[i]
        /\ ~C26_Checks[1] => ret.filter_result = "FailedVolume"
        /\ ret.filter_result = "Passed" <=> \A i \in 1..4 : C26_Checks[i]

\* a candidate below the minimum volume whose spreads and APR fail too was tagged
C26_Witness ==
    /\ call.fn = "check_filters" /\ ret.returned
    /\ \A i \in 1..4 : ~C26_Checks[i]
    /\ ret.filter_result = "FailedVolume"


\* ---- C24, C25, C27: the scanner ----

Scanned == call.fn = "scan" /\ ret.returned

Rescanned == Scanned /\ ret.second # NoScan

SymbolsOf(opps) == [i \in 1..Len(opps) |-> opps[i].symbol]

\* net APR descending, equal net APR by total 24h volume descending
C24_Ordered(opps) ==
    \A i, j \in 1..Len(opps) :
        i < j => \/ opps[i].best_net_apr > opps[j].best_net_apr
                 \/ /\ opps[i].best_net_apr = opps[j].best_net_apr
                    /\ opps[i].total_volume_24h >= opps[j].total_volume_24h

\* the venue data of the example: S1 and S2 with the same net APR, S2 with twice the
\* volume of S1, S3 with a higher net APR and the least volume
C24_Example ==
    /\ call.fn = "scan"
    /\ call.data["S1"] = VenueAnswers(VolOk(10), VolOk(10), BookOk(1, 100), BookOk(1, 100),
                                      RateOk(0), RateOk(2))
    /\ call.data["S2"] = VenueAnswers(VolOk(20), VolOk(20), BookOk(1, 100), BookOk(1, 100),
                                      RateOk(0), RateOk(2))
    /\ call.data["S3"] = VenueAnswers(VolOk(5), VolOk(5), BookOk(1, 100), BookOk(1, 100),
                                      RateOk(0), RateOk(3))

\* C24: the passed opportunities a scan returns are ordered by net APR descending,
\* and passed opportunities with the same net APR by total 24h volume descending,
\* whatever the order in which the per-symbol tasks completed; for the example data
\* the order is S3, S2, S1.
C24_AprThenVolumeOrder ==
    Scanned =>
        /\ C24_Ordered(ret.first.opportunities)
        /\ C24_Example => SymbolsOf(ret.first.opportunities) = <<"S3", "S2", "S1">>

\* the example has been scanned, and so has a scan in which two passed
\* opportunities tie on net APR and differ in volume
C24_Witness ==
    /\ Scanned
    /\ C24_Example
    /\ Len(ret.first.opportunities) = 3
    /\ ret.first.opportunities[2].best_net_apr = ret.first.opportunities[3].best_net_apr
    /\ ret.first.opportunities[2].total_volume_24h > ret.first.opportunities[3].total_volume_24h

\* two passed opportunities of the scan tie on both net APR and total volume
C25_DoubleTie(opps) ==
    \E i, j \in 1..Len(opps) :
        /\ i # j
        /\ opps[i].best_net_apr = opps[j].best_net_apr
        /\ opps[i].total_volume_24h = opps[j].total_volume_24h

\* C25 as stated: two scans over the same venue data return the passed
\* opportunities in the same order, whatever the completion orders, ties on both
\* net APR and volume included.
C25_SameOrder ==
    Rescanned => ret.first.opportunities = ret.second.opportunities

\* C25, amended: two scans over the same venue data return the same passed
\* opportunities and the same statistics, and in the same order unless two of the
\* passed opportunities tie on both net APR and total volume.
C25_SameOrderButDoubleTies ==
    Rescanned =>
        /\ {ret.first.opportunities[i] : i \in 1..Len(ret.first.opportunities)}
             = {ret.second.opportunities[i] : i \in 1..Len(ret.second.opportunities)}
        /\ Len(ret.first.opportunities) = Len(ret.second.opportunities)
        /\ ret.first.stats = ret.second.stats
        /\ ~C25_DoubleTie(ret.first.opportunities)
              => ret.first.opportunities = ret.second.opportunities

\* two scans of data with an APR tie broken by volume returned the same order of
\* three passed opportunities
C25_Witness ==
    /\ Rescanned
    /\ Len(ret.first.opportunities) = 3
    /\ ~C25_DoubleTie(ret.first.opportunities)
    /\ \E i, j \in 1..3 :
          /\ i # j
          /\ ret.first.opportunities[i].best_net_apr = ret.first.opportunities[j].best_net_apr
    /\ ret.first.opportunities = ret.second.opportunities

\* one of the six fetches for the symbol failed
C27_FetchFailed(answers) ==
    \/ ~answers.extended_volume.ok
    \/ ~answers.pacifica_volume.ok
    \/ ~answers.extended_orderbook.ok
    \/ ~answers.pacifica_orderbook.ok
    \/ ~answers.extended_funding.ok
    \/ ~answers.pacifica_funding.ok

C27_Failed == {s \in ScanSymbols : C27_FetchFailed(call.data[s])}

\* C27: a symbol for which any fetch failed (volume, orderbook or funding rate, on
\* either venue) is dropped by the scan: it is not among the passed
\* opportunities, not among the labelled candidates, and not counted in a
\* filter-failure statistic.
C27_FailedSymbolDropped ==
    Scanned =>
        /\ \A i \in 1..Len(ret.first.opportunities) :
              ret.first.opportunities[i].symbol \notin C27_Failed
        /\ \A i \in 1..Len(ret.first.all_candidates) :
              ret.first.all_candidates[i].opportunity.symbol \notin C27_Failed
        /\ ret.first.stats.filtered_by_volume =
              Cardinality({s \in ScanSymbols \ C27_Failed :
                             ~IsHighVolume(VolumeData(s, call.data[s]), call.config)})


\* ---- C28: position sizing ----

Sized == call.fn = "calculate_position_size" /\ ret.returned

\* min(0.95 x min(free_A, free_B), cap), in hundredths of a USD
C28_BudgetX100 ==
    Min(Min(call.extended_free_collateral, call.pacifica_free_collateral) * 95,
        call.max_position_size_usd * 100)

C28_CoarserLot == Max(call.extended_lot_size, call.pacifica_lot_size)

\* a size (thousandths of a base unit) costs no more than the budget at the price
C28_Affordable(size) == size * call.current_price * 100 <= C28_BudgetX100 * 1000

C29_Bought(size, price) ==
    \E free \in FreeCollaterals : size * price * 100 <= free * 95 * 1000

C29_Step ==
    pc = "open_prepare" =>
        /\ pc' = "open_leverage" => ex'.size > 0 /\ C29_Bought(ex'.size, ex'.price)
        /\ (pc' # pc /\ obs'.open = "insufficient_capital") =>
              /\ pc' = "sleep"
              /\ order' = NoOrder
              /\ ex' = ex
              /\ state' = state
              /\ file' = file

\* C29: when the free collateral buys less than one coarser lot the computed size is
\* 0 and open_best_opportunity fails with the insufficient-capital error before any
\* leverage update and any order, leaving the bot state and the state file as they
\* were; the leverage updates are reached only with a positive size that the
\* collateral buys.
C29_NoLotNoOpen == [][C29_Step]_vars

\* an open failed for insufficient capital and nothing is tracked
C29_Witness ==
    /\ obs.open = "insufficient_capital"
    /\ pc = "sleep"
    /\ state.current_position = NoPosition
    /\ ex = ExIdle


\* ---- C30: back-off between attempts ----

BackedOff == call.fn = "order_failed" /\ ret.returned /\ ~ret.gave_up

\* the error text contains "429", "too many requests" or "rate limit" in some
\* letter case
C30_RateLimitText(e) ==
    e \in {<<"HTTP", "429">>, <<"Too", "Many", "Requests">>, <<"RATE", "LIMIT", "exceeded">>}

\* 1 s, 2 s, 4 s, 8 s, 16 s
C30_Exponential == <<1000, 2000, 4000, 8000, 16000>>

\* C30: in the leg-A, leg-B and rollback loops the delay slept after the k-th
\* failed attempt is 1000 x 2^(k-1) ms for an ordinary error and
\* RATE_LIMIT_BACKOFF_MS x k ms for an error whose text contains "429", "too many
\* requests" or "rate limit" in any letter case; backoff_delay_ms gives 1 s, 2 s,
\* 4 s, 8 s and 16 s for the ordinary attempts 1 to 5.
C30_BackoffDelays ==
    /\ BackedOff =>
          IF C30_RateLimitText(call.e)
          THEN ret.delay_ms = RATE_LIMIT_BACKOFF_MS * call.attempt
          ELSE /\ call.attempt \in DOMAIN C30_Exponential
               /\ ret.delay_ms = C30_Exponential[call.attempt]
    /\ \A k \in 1..ORDER_MAX_ATTEMPTS : backoff_delay_ms(k, FALSE) = C30_Exponential[k]

\* the rollback loop backed off after a rate-limited failure beyond the fifth attempt
C30_Witness ==
    /\ BackedOff
    /\ call.loop = "rollback"
    /\ call.attempt > ORDER_MAX_ATTEMPTS
    /\ call.e = <<"Too", "Many", "Requests">>
    /\ ret.delay_ms = 3000 * call.attempt


\* ---- C31: bound of a single retry delay ----

\* the longest exponential delay: the base delay at the capped exponent
C31_MaxDelayMs == ORDER_BASE_BACKOFF_MS * Pow2(BACKOFF_MAX_EXPONENT)

\* C31: no sleep between two attempts exceeds a fixed maximum (the base delay at
\* the capped exponent), for any number of attempts and any mix of ordinary and
\* rate-limit errors.
C31_DelayBounded ==
    BackedOff => ret.delay_ms <= C31_MaxDelayMs


\* ---- C32: retry_with_backoff ----

Retrying == call.fn = "retry_with_backoff"

\* C32: retry_with_backoff invokes the operation at most max_attempts times, for
\* every max_attempts >= 0; it returns at the first success with the value of that
\* invocation, and after max_attempts failures it returns the error of the last
\* attempt without having slept after it.
C32_AtMostMaxAttempts ==
    Retrying =>
        /\ call.invoked <= call.max_attempts
        /\ ret.returned =>
              /\ ret.result.at = call.invoked
              /\ call.sleeps = call.invoked - 1
              /\ ~ret.result.ok => call.invoked = call.max_attempts


\* ---- C33: the two opening orders ----

C33_LegA == order.venue = "extended" /\ order.call = "place_market_order" /\ ~order.reduce_only

C33_LegB == order.venue = "pacifica" /\ order.call = "place_market_order"

C33_LongExtended == ex.best_direction = "Long Extended / Short Pacifica"

\* C33: in every open the leg-A (Extended) order is a buy exactly when the direction
\* the scanner chose for the opportunity is long Extended / short Pacifica, and a
\* sell otherwise; the leg-B (Pacifica) order has the opposite side; both carry the
\* position_size_base computed for the open.
C33_OppositeEqualLegs ==
    /\ C33_LegA =>
          /\ ex.best_direction \in Directions
          /\ order.side = (IF C33_LongExtended THEN "Buy" ELSE "Sell")
          /\ order.size = ex.size
    /\ C33_LegB =>
          /\ ex.best_direction \in Directions
          /\ order.side = (IF C33_LongExtended THEN "Sell" ELSE "Buy")
          /\ order.size = ex.size
          /\ ex.a_acked

\* a leg-B buy has been submitted for an opportunity that is long Pacifica / short
\* Extended, after the leg-A order was acknowledged
C33_Witness ==
    /\ C33_LegB
    /\ order.side = "Buy"
    /\ ex.best_direction = "Long Pacifica / Short Extended"
    /\ ex.a_acked
    /\ ex.size > 0


\* ---- C34: emergency_exit ----

ExitReturned == call.fn = "emergency_exit" /\ ret.returned

\* C34: when emergency_exit reports success no position is live on Extended or on
\* Pacifica, positions that the state file does not record included.
C34_SuccessMeansFlat ==
    (ExitReturned /\ ret.ok) => ret.ext_live = {} /\ ret.pac_live = {}


\* ---- C35: force_rotation ----

\* C35: after force_rotation has rewritten a state file that holds a position, the
\* rotation check of the bot's next cycle finds the position expired (should_rotate
\* is true), whatever its opened_at and whether the bot was running or is started
\* afterwards.
C35_ForcedRotationRotates ==
    (call.fn = "force_rotation" /\ ret.returned /\ ret.cycled) => ret.rotates


\* ---- C36: both legs acknowledged ----

\* C36: whenever the leg-A and the leg-B order of an open have both been
\* acknowledged, the executor returns success and the position is recorded in the
\* bot state before the cycle ends.
C36_BothAckedIsRecorded ==
    (pc = "sleep" /\ ex.a_acked /\ ex.b_acked) =>
        /\ obs.exec = "ok"
        /\ state.current_position # NoPosition


\* ---- C38: a recorded position has a leg ----

C38_HasLeg(pos) ==
    pos # NoPosition => (pos.extended_position # NoExtPos \/ pos.pacifica_position # NoPacPos)

\* C38: in every reachable bot state, in memory and in the state file, a
\* current_position that is Some has extended_position or pacifica_position set.
C38_PositionHasLeg ==
    /\ C38_HasLeg(state.current_position)
    /\ C38_HasLeg(file.current_position)

\* ---- C39: the state file follows the memory ----

\* C39: when a cycle's calls of reconcile_state, recover_state_if_untracked,
\* open_best_opportunity and close_current_position have returned, the state file
\* holds the bot state that is in memory.
C39_FileIsMemory ==
    pc = "sleep" => file = state


\* ---- C40: closing a position ----

C40_Step ==
    /\ \* close orders go to legs that are present, with the leg as recorded
       (pc = "close_ext" /\ order' # order) =>
          /\ state.current_position.extended_position # NoExtPos
          /\ order' = CloseExtendedOrder(state.current_position.extended_position)
    /\ (pc = "close_pac" /\ order' # order) =>
          /\ state.current_position.pacifica_position # NoPacPos
          /\ order' = ClosePacificaOrder(state.current_position.pacifica_position)
    /\ \* at most 5 attempts per leg
       pc' \in {"close_ext", "close_pac"} => attempt' \in 1..5
    /\ \* the Pacifica leg is attempted whatever became of the Extended leg, and a
       \* leg that was not acknowledged is an error
       (pc = "close_ext" /\ pc' # "close_ext") =>
          /\ pc' = (IF state.current_position.pacifica_position # NoPacPos
                    THEN "close_pac" ELSE "close_finish")
          /\ "Extended" \in ex'.errors => attempt = 5
    /\ \* an error keeps current_position, success clears it
       (pc = "close_finish" /\ pc' # "close_finish") =>
          IF ex.errors # {}
          THEN obs'.close = "err" /\ state' = state /\ file' = file
          ELSE state'.current_position = NoPosition

C37_Answered ==
    /\ pc \notin {"stopped", "panicked"}
    /\ ~saveFailed
    /\ obs.rc # "err"
    /\ obs.close # "err"

\* the position has both of its legs
C37_Whole(pos) ==
    /\ pos # NoPosition
    /\ pos.extended_position # NoExtPos
    /\ pos.pacifica_position # NoPacPos

====
